---------------------------- MODULE Spec2Model ----------------------------
(***************************************************************************)
(* Variable Projection DMD (src/pydmd/varprodmd.py).                       *)
(*                                                                         *)
(* Five groups of state are modelled:                                      *)
(*   - rankCall : one call of the rank estimator __compute_rank            *)
(*                (specification SpecRank);                                *)
(*   - selCall  : one call of select_best_samples_fast                     *)
(*                (specification SpecSelect);                              *)
(*   - self, ret, hist : a VarProDMD instance, the outcome of the last     *)
(*                call made on it and the history of its fit calls         *)
(*                (specification Spec);                                    *)
(*   - fnCall   : one call of one of the other functions: the packing of   *)
(*                the eigenvalues (SpecPack), compute_operator             *)
(*                (SpecOperator), compute_varprodmd_any (SpecAny), the     *)
(*                Jacobian (SpecJac);                                      *)
(*   - run      : one run of the solver on an optimization helper          *)
(*                (specification SpecSolver).                              *)
(*                                                                         *)
(* Real numbers that the program receives as arguments (rank specifier,    *)
(* compression fraction) are fractions [n |-> num, d |-> den] with d > 0,  *)
(* standing for the float64 nearest to num/den.  Singular values and noise *)
(* levels are integers.  Where the program computes in float64 (cumulative *)
(* energy, threshold tau_star, number of samples to keep, variances) the   *)
(* model does the same operations in the same order with float64 rounding. *)
(***************************************************************************)
EXTENDS Integers, Sequences, FiniteSets

VARIABLES rankCall, selCall, self, ret, hist, fnCall, run

vars == <<rankCall, selCall, self, ret, hist, fnCall, run>>

(***************************************************************************)
(* Bounds of the model.                                                    *)
(***************************************************************************)
MaxSigmaLen == 3
MaxSigmaVal == 3
MaxShape == 3
MaxRankInt == 4
MaxNoise == 2
MaxCols == 5
MaxEnergyLen == 6
MaxEnergyVal == 4
MaxFitCols == 3

MaxPackLen == 2

MaxPart == 1

MaxSortLen == 3

MaxAnyShape == 4

MaxJacEigs == 2

MaxAlpha == 3

MaxNfev == 3

MaxRuns == 2

(***************************************************************************)
(* Rationals and small helpers.                                            *)
(***************************************************************************)
Rat(n, d) == [n |-> n, d |-> d]

RatLt(a, b) == a.n * b.d < b.n * a.d

RatLe(a, b) == a.n * b.d <= b.n * a.d

Zero == Rat(0, 1)

One == Rat(1, 1)

Abs(x) == IF x < 0 THEN -x ELSE x

Min(a, b) == IF a < b THEN a ELSE b

Max(a, b) == IF a > b THEN a ELSE b

\* Python's None for an optional number, and a present number.
None == [none |-> TRUE, v |-> 0]

Some(x) == [none |-> FALSE, v |-> x]

\* The result of a call: a returned value, or a raised exception.
Return(x) == [raised |-> FALSE, exc |-> "", val |-> x]

Raise(e) == [raised |-> TRUE, exc |-> e, val |-> 0]

(***************************************************************************)
(* float64 arithmetic.                                                     *)
(*                                                                         *)
(* A natural number of any size is the sequence of its digits to the base  *)
(* 2^14, least significant first, without leading zeros (<<>> is 0).  A    *)
(* float64 value is [neg, m, e], standing for (-1)^neg * m * 2^e with m of *)
(* at most 54 bits; every operation computes the exact result and rounds   *)
(* it to the nearest value of 53 bits, ties to even, as IEEE 754 does.     *)
(* Subnormal numbers, infinities and NaN are outside the ranges used here. *)
(***************************************************************************)
BigBase == 16384

BigBits == 14

Digit(a, i) == IF 1 <= i /\ i <= Len(a) THEN a[i] ELSE 0

\* a without its leading zero digits
BigNorm(a) ==
    SubSeq(a, 1, Cardinality({i \in 1..Len(a) : \E j \in i..Len(a) : a[j] # 0}))

\* a natural number below 2^31
BigFromInt(n) ==
    BigNorm(<<n % BigBase, (n \div BigBase) % BigBase,
              n \div (BigBase * BigBase)>>)

\* a, when it is below 2^31
BigToInt(a) ==
    Digit(a, 1) + BigBase * Digit(a, 2) + BigBase * BigBase * Digit(a, 3)

BigCmpAt(a, b, i) ==
    IF i = 0 THEN 0 ELSE IF Digit(a, i) < Digit(b, i) THEN -1 ELSE 1

\* -1, 0 or 1 as a < b, a = b or a > b: decided at the highest position
\* where they differ
BigCmp(a, b) ==
    BigCmpAt(a, b, Cardinality({i \in 1..Max(Len(a), Len(b)) :
                                   \E j \in i..Max(Len(a), Len(b)) :
                                       Digit(a, j) # Digit(b, j)}))

\* the carry into position i of a + b: some lower position overflows and
\* every position between passes the carry on
CarryIn(a, b, i) ==
    \E j \in 1..(i - 1) :
        /\ Digit(a, j) + Digit(b, j) >= BigBase
        /\ \A k \in (j + 1)..(i - 1) : Digit(a, k) + Digit(b, k) = BigBase - 1

BigAdd(a, b) ==
    IF a = <<>> THEN BigNorm(b)
    ELSE BigNorm(SubSeq([i \in 1..(Max(Len(a), Len(b)) + 1) |->
                            (Digit(a, i) + Digit(b, i)
                                + (IF CarryIn(a, b, i) THEN 1 ELSE 0)) % BigBase],
                        1, Max(Len(a), Len(b)) + 1))

\* the borrow from position i of a - b
BorrowIn(a, b, i) ==
    \E j \in 1..(i - 1) :
        /\ Digit(a, j) < Digit(b, j)
        /\ \A k \in (j + 1)..(i - 1) : Digit(a, k) = Digit(b, k)

\* a - b for a >= b
BigSub(a, b) ==
    IF b = <<>> THEN a
    ELSE BigNorm(SubSeq([i \in 1..Len(a) |->
                            (a[i] - Digit(b, i)
                                - (IF BorrowIn(a, b, i) THEN 1 ELSE 0)
                                + BigBase) % BigBase],
                        1, Len(a)))

\* a * 2^s: whole digits of zeros, then every digit split over two places
BigShl(a, s) ==
    IF a = <<>> THEN <<>>
    ELSE BigNorm([i \in 1..(s \div BigBits) |-> 0]
                 \o [i \in 1..(Len(a) + 1) |->
                        ((Digit(a, i) * 2 ^ (s % BigBits)) % BigBase)
                        + ((Digit(a, i - 1) * 2 ^ (s % BigBits)) \div BigBase)])

\* a \div 2^s
BigShr(a, s) ==
    IF s \div BigBits >= Len(a) THEN <<>>
    ELSE BigNorm(SubSeq([i \in 1..(Len(a) - s \div BigBits) |->
                            (a[i + s \div BigBits] \div (2 ^ (s % BigBits)))
                            + (Digit(a, i + s \div BigBits + 1) % (2 ^ (s % BigBits)))
                                * 2 ^ (BigBits - (s % BigBits))],
                        1, Len(a) - s \div BigBits))

\* a * k for 0 <= k <= BigBase: the low and the high halves of the digit
\* products, added
BigMulSmall(a, k) ==
    BigAdd(SubSeq([i \in 1..Len(a) |-> (a[i] * k) % BigBase], 1, Len(a)),
           SubSeq([i \in 1..(Len(a) + 1) |-> (Digit(a, i - 1) * k) \div BigBase],
                  1, Len(a) + 1))

\* the sum of the digit products a[i] * b[j] with i + j = k + 1, for a of at
\* most four digits
Column(a, b, k) ==
    Digit(a, 1) * Digit(b, k) + Digit(a, 2) * Digit(b, k - 1)
        + Digit(a, 3) * Digit(b, k - 2) + Digit(a, 4) * Digit(b, k - 3)

\* a * b for a of at most four digits: the columns are below 2^30, which is
\* three digits each
BigMul(a, b) ==
    IF a = <<>> \/ b = <<>> THEN <<>>
    ELSE BigAdd(BigAdd(SubSeq([k \in 1..(Len(b) + 4) |-> Column(a, b, k) % BigBase],
                              1, Len(b) + 4),
                       SubSeq([k \in 1..(Len(b) + 4) |->
                                  (Column(a, b, k - 1) \div BigBase) % BigBase],
                              1, Len(b) + 4)),
                SubSeq([k \in 1..(Len(b) + 4) |->
                           Column(a, b, k - 2) \div (BigBase * BigBase)],
                       1, Len(b) + 4))

\* the number of bits of a digit
BitLen(n) == CHOOSE k \in 0..BigBits : n < 2 ^ k /\ (k = 0 \/ 2 ^ (k - 1) <= n)

BigBitLen(a) ==
    IF a = <<>> THEN 0 ELSE BigBits * (Len(a) - 1) + BitLen(a[Len(a)])

\* bit p (from 0) of a
BigBit(a, p) == (Digit(a, p \div BigBits + 1) \div (2 ^ (p % BigBits))) % 2

\* some bit of a below bit p is set
BigBitsBelow(a, p) ==
    \/ \E i \in 1..(p \div BigBits) : Digit(a, i) # 0
    \/ Digit(a, p \div BigBits + 1) % (2 ^ (p % BigBits)) # 0

RECURSIVE RemFrom(_, _, _)
\* the remainder of a \div BigBase^(i - 1) divided by k
RemFrom(a, k, i) ==
    IF i > Len(a) THEN 0 ELSE (RemFrom(a, k, i + 1) * BigBase + a[i]) % k

\* a \div k for 0 < k < BigBase
BigDivSmall(a, k) ==
    BigNorm(SubSeq([i \in 1..Len(a) |->
                       (RemFrom(a, k, i + 1) * BigBase + a[i]) \div k],
                   1, Len(a)))

\* an estimate of the largest d with b * d <= r, from the two leading digits
\* of r and the leading digit of b: when that digit is BigBase / 2 or more
\* and r < b * BigBase, the estimate is d, d + 1 or d + 2
DigitEstimate(r, b) ==
    Min(BigBase - 1,
        (Digit(r, Len(b) + 1) * BigBase + Digit(r, Len(b))) \div b[Len(b)])

RECURSIVE BigDivModFrom(_, _, _, _, _)
RECURSIVE BigDivModDigit(_, _, _, _, _, _, _)
\* d is the next digit of the quotient if p = b * d is not above r, and is
\* too large otherwise
BigDivModDigit(a, b, i, q, r, d, p) ==
    IF BigCmp(p, r) <= 0
    THEN BigDivModFrom(a, b, i - 1, <<d>> \o q, BigSub(r, p))
    ELSE BigDivModDigit(a, b, i, q, r, d - 1, BigSub(p, b))

BigDivModStep(a, b, i, q, r) ==
    BigDivModDigit(a, b, i, q, r, DigitEstimate(r, b),
                   BigMulSmall(b, DigitEstimate(r, b)))

\* long division of a by b: digit i of a is brought down next, q and r are
\* the quotient and the remainder of the digits above it
BigDivModFrom(a, b, i, q, r) ==
    IF i = 0 THEN [q |-> BigNorm(q), r |-> r]
    ELSE BigDivModStep(a, b, i, q, BigNorm(<<a[i]>> \o r))

\* a divided by b of two digits or more, the leading one BigBase / 2 or
\* more: the leading Len(b) - 1 digits of a are below b
BigDivModNormal(a, b) ==
    IF Len(a) < Len(b) THEN [q |-> <<>>, r |-> a]
    ELSE BigDivModFrom(a, b, Len(a) - Len(b) + 1, <<>>,
                       SubSeq(a, Len(a) - Len(b) + 2, Len(a)))

\* the quotient of a by b # 0, and whether the division is exact
BigDivMod(a, b) ==
    IF Len(b) = 1
    THEN [q |-> BigDivSmall(a, b[1]), exact |-> RemFrom(a, b[1], 1) = 0]
    ELSE [q |-> BigDivModNormal(BigShl(a, BigBits - BitLen(b[Len(b)])),
                                BigShl(b, BigBits - BitLen(b[Len(b)]))).q,
          exact |-> BigDivModNormal(BigShl(a, BigBits - BitLen(b[Len(b)])),
                                    BigShl(b, BigBits - BitLen(b[Len(b)]))).r = <<>>]

\* the largest r with r * r <= n, for n below 2^28
IntSqrt(n) == CHOOSE r \in 0..BigBase : r * r <= n /\ n < (r + 1) * (r + 1)

RECURSIVE BigSqrtFrom(_, _)
BigSqrtStep(a, r, next) ==
    IF BigCmp(next, r) >= 0 THEN r ELSE BigSqrtFrom(a, next)

\* Newton's iteration downwards from r >= sqrt(a), to the largest r with
\* r * r <= a
BigSqrtFrom(a, r) ==
    BigSqrtStep(a, r, BigShr(BigAdd(r, BigDivMod(a, r).q), 1))

\* the iteration starts above the root of the two leading digits of a (of
\* the leading one, when the number of digits is odd)
BigSqrt(a) ==
    IF a = <<>> THEN <<>>
    ELSE IF Len(a) % 2 = 0
    THEN BigSqrtFrom(a, [i \in 1..(Len(a) \div 2 - 1) |-> 0]
                        \o BigFromInt(IntSqrt(a[Len(a)] * BigBase + a[Len(a) - 1]) + 1))
    ELSE BigSqrtFrom(a, [i \in 1..(Len(a) \div 2) |-> 0]
                        \o BigFromInt(IntSqrt(a[Len(a)]) + 1))

(***************************************************************************)
(* float64 values and operations                                           *)
(***************************************************************************)
Float(neg, m, e) == [neg |-> neg, m |-> m, e |-> e]

FloatBits == 53

\* the float64 nearest to (-1)^neg * m * 2^e, or to a little more than that
\* when sticky: m loses its low bits, and goes up by one when they are more
\* than half a unit, or half a unit and the kept part is odd
RoundTo(neg, m, e, sticky, sh) ==
    IF /\ BigBit(m, sh - 1) = 1
       /\ (sticky \/ BigBitsBelow(m, sh - 1) \/ BigBit(m, sh) = 1)
    THEN Float(neg, BigAdd(BigShr(m, sh), <<1>>), e + sh)
    ELSE Float(neg, BigShr(m, sh), e + sh)

Round(neg, m, e, sticky) ==
    IF BigBitLen(m) <= FloatBits THEN Float(neg, m, e)
    ELSE RoundTo(neg, m, e, sticky, BigBitLen(m) - FloatBits)

FromInt(n) == Float(n < 0, BigFromInt(IF n < 0 THEN -n ELSE n), 0)

FNeg(x) == Float(~x.neg, x.m, x.e)

FIsZero(x) == x.m = <<>>

\* -1, 0, 1 as |x| < |y|, |x| = |y|, |x| > |y|: the magnitudes as multiples
\* of 2^e, e the smaller exponent
MagCmp(x, y) ==
    BigCmp(BigShl(x.m, x.e - Min(x.e, y.e)), BigShl(y.m, y.e - Min(x.e, y.e)))

\* -1, 0, 1 as x < y, x = y, x > y
FCmp(x, y) ==
    IF FIsZero(x) /\ FIsZero(y) THEN 0
    ELSE IF FIsZero(x) THEN (IF y.neg THEN 1 ELSE -1)
    ELSE IF FIsZero(y) THEN (IF x.neg THEN -1 ELSE 1)
    ELSE IF x.neg # y.neg THEN (IF x.neg THEN -1 ELSE 1)
    ELSE IF x.neg THEN -MagCmp(x, y) ELSE MagCmp(x, y)

FLt(x, y) == FCmp(x, y) < 0

FGe(x, y) == FCmp(x, y) >= 0

\* x + y for magnitudes mx and my in units of 2^e
FAddAligned(x, y, e, mx, my) ==
    IF x.neg = y.neg THEN Round(x.neg, BigAdd(mx, my), e, FALSE)
    ELSE IF BigCmp(mx, my) >= 0 THEN Round(x.neg, BigSub(mx, my), e, FALSE)
    ELSE Round(y.neg, BigSub(my, mx), e, FALSE)

FAdd(x, y) ==
    IF FIsZero(x) THEN y
    ELSE IF FIsZero(y) THEN x
    ELSE FAddAligned(x, y, Min(x.e, y.e), BigShl(x.m, x.e - Min(x.e, y.e)),
                     BigShl(y.m, y.e - Min(x.e, y.e)))

FSub(x, y) == FAdd(x, FNeg(y))

FMul(x, y) == Round(x.neg # y.neg, BigMul(x.m, y.m), x.e + y.e, FALSE)

FDivShifted(x, y, k, qr) ==
    Round(x.neg # y.neg, qr.q, x.e - y.e - k, ~qr.exact)

\* x / y for y # 0: the quotient of the magnitudes to 55 bits or more
FDiv(x, y) ==
    IF FIsZero(x) THEN Float(x.neg # y.neg, <<>>, 0)
    ELSE FDivShifted(x, y, Max(0, 55 + BigBitLen(y.m) - BigBitLen(x.m)),
                     BigDivMod(BigShl(x.m, Max(0, 55 + BigBitLen(y.m) - BigBitLen(x.m))),
                               y.m))

FSqrtRoot(x, k, a, r) ==
    Round(FALSE, r, (x.e - k) \div 2, BigCmp(BigMul(r, r), a) # 0)

\* sqrt(x) for x > 0: the root of a = m * 2^k, k making the exponent even
FSqrtShifted(x, k) ==
    FSqrtRoot(x, k, BigShl(x.m, k), BigSqrt(BigShl(x.m, k)))

\* the radicand gets 109 to 112 bits, so that the root has 55 or 56
FSqrt(x) ==
    IF FIsZero(x) THEN x
    ELSE FSqrtShifted(x, 110 - BigBitLen(x.m) + ((x.e - BigBitLen(x.m)) % 2))

\* int(x): truncation towards zero
FTrunc(x) ==
    IF x.e >= 0
    THEN (IF x.neg THEN -1 ELSE 1) * BigToInt(BigShl(x.m, x.e))
    ELSE (IF x.neg THEN -1 ELSE 1) * BigToInt(BigShr(x.m, -x.e))

\* the float64 quotient n / d of two integers, d # 0
FRat(n, d) ==
    FDiv(FromInt(n), FromInt(d))

RECURSIVE SumSquares(_, _)
\* np.square(sigma)[:k].sum(); squares of integers and their sums are exact
\* in float64
SumSquares(sigma, k) ==
    IF k = 0 THEN 0 ELSE sigma[k] * sigma[k] + SumSquares(sigma, k - 1)

\* Twice np.median(sigma): the middle element of the sorted values, or the
\* sum of the two middle ones (np.median returns their mean).
KthSmallest(sigma, k) ==
    CHOOSE v \in {sigma[i] : i \in 1..Len(sigma)} :
        /\ Cardinality({i \in 1..Len(sigma) : sigma[i] < v}) < k
        /\ Cardinality({i \in 1..Len(sigma) : sigma[i] <= v}) >= k

Median2(sigma) ==
    LET len == Len(sigma)
    IN  IF len % 2 = 1
        THEN 2 * KthSmallest(sigma, (len + 1) \div 2)
        ELSE KthSmallest(sigma, len \div 2) + KthSmallest(sigma, len \div 2 + 1)

(***************************************************************************)
(* __svht: the optimal hard threshold tau_star and the rank it gives.      *)
(***************************************************************************)
\* beta (lines 64-66)
beta(rows, cols) ==
    IF rows > cols THEN FDiv(FromInt(cols), FromInt(rows))
    ELSE FDiv(FromInt(rows), FromInt(cols))

\* np.median(sigma_svd)
median(sigma_svd) == FRat(Median2(sigma_svd), 2)

\* the literals 0.56, 0.95, 1.82 and 1.43 of line 86
omega_literals == <<FRat(56, 100), FRat(95, 100), FRat(182, 100), FRat(143, 100)>>

\* omega = 0.56 * beta_cubic - 0.95 * beta_square + 1.82 * beta + 1.43
omega(b) ==
    FAdd(FAdd(FSub(FMul(omega_literals[1], FMul(b, FMul(b, b))),
                   FMul(omega_literals[2], FMul(b, b))),
              FMul(omega_literals[3], b)),
         omega_literals[4])

\* np.sqrt(beta * beta + 14 * beta + 1)
beta_root(b) ==
    FSqrt(FAdd(FAdd(FMul(b, b), FMul(FromInt(14), b)), FromInt(1)))

\* lambda_star = np.sqrt(2 * (beta + 1) + (8 * beta / (beta + 1 + root)))
lambda_star(b, root) ==
    FSqrt(FAdd(FMul(FromInt(2), FAdd(b, FromInt(1))),
               FDiv(FMul(FromInt(8), b), FAdd(FAdd(b, FromInt(1)), root))))

\* omega, lambda_star and the root of the size depend on the shape only:
\* they are tabulated for the shapes the specifications below reach.
ShapeRange == 1..Max(MaxShape, MaxAnyShape)

Tabulate(f) == SubSeq(f, 1, Len(f))

Omegas ==
    Tabulate([r \in ShapeRange |->
        Tabulate([c \in ShapeRange |-> omega(beta(r, c))])])

BetaRoots ==
    Tabulate([r \in ShapeRange |->
        Tabulate([c \in ShapeRange |-> beta_root(beta(r, c))])])

LambdaStars ==
    Tabulate([r \in ShapeRange |->
        Tabulate([c \in ShapeRange |->
            lambda_star(beta(r, c), BetaRoots[r][c])])])

SqrtSizes == Tabulate([n \in ShapeRange |-> FSqrt(FromInt(n))])

\* tau_star = lambda_star * abs(sigma) * np.sqrt(max(rows, cols)), lines 71-81
tau_star_noise(s, rows, cols) ==
    IF rows \in ShapeRange /\ cols \in ShapeRange
    THEN FMul(FMul(LambdaStars[rows][cols], FromInt(Abs(s))),
              SqrtSizes[Max(rows, cols)])
    ELSE FMul(FMul(lambda_star(beta(rows, cols), beta_root(beta(rows, cols))),
                   FromInt(Abs(s))),
              FSqrt(FromInt(Max(rows, cols))))

\* tau_star = median * omega, lines 83-87
tau_star_median(sigma_svd, rows, cols) ==
    FMul(median(sigma_svd),
         IF rows \in ShapeRange /\ cols \in ShapeRange
         THEN Omegas[rows][cols] ELSE omega(beta(rows, cols)))

tau_star(sigma_svd, rows, cols, sigma) ==
    IF sigma.none THEN tau_star_median(sigma_svd, rows, cols)
    ELSE tau_star_noise(sigma.v, rows, cols)

\* np.where(sigma_svd >= tau)[0], as 1-based positions
where_ge(sigma_svd, tau) ==
    {i \in 1..Len(sigma_svd) : FGe(FromInt(sigma_svd[i]), tau)}

\* np.where(sigma_svd >= tau_star)[0], as 1-based positions
SvhtWhere(sigma_svd, rows, cols, sigma) ==
    where_ge(sigma_svd, tau_star(sigma_svd, rows, cols, sigma))

SetMax(S) == CHOOSE x \in S : \A y \in S : y <= x

SetMin(S) == CHOOSE x \in S : \A y \in S : x <= y

\* mutant of r_out: takes the first qualifying position instead of the last
r_out_first(rank, size) == IF rank = {} THEN size ELSE SetMin(rank)

\* r_out (lines 90-95): rank[-1] + 1 with 0-based positions is the last
\* 1-based position
r_out(rank, size) == IF rank = {} THEN size ELSE SetMax(rank)

__svht(sigma_svd, rows, cols, sigma) ==
    r_out(SvhtWhere(sigma_svd, rows, cols, sigma), Len(sigma_svd))

(***************************************************************************)
(* __compute_rank                                                          *)
(***************************************************************************)

\* the float64 quotients of small positive integers, computed once
QuotientRange == 1..16

Quotients ==
    Tabulate([n \in QuotientRange |->
        Tabulate([d \in QuotientRange |-> FRat(n, d)])])

\* FRat(n, d), read from the table where it holds the quotient
Quotient(n, d) ==
    IF n \in QuotientRange /\ d \in QuotientRange THEN Quotients[n][d]
    ELSE FRat(n, d)

\* entry i (1-based) of np.square(sigma_x) / np.square(sigma_x).sum(), for
\* a non-zero sum
EnergyFraction(sigma_x, i) ==
    Quotient(sigma_x[i] * sigma_x[i], SumSquares(sigma_x, Len(sigma_x)))

RECURSIVE cumulative_energy(_, _)
\* entry i (1-based) of np.cumsum(...): the quotients added one by one
cumulative_energy(sigma_x, i) ==
    IF i = 1 THEN EnergyFraction(sigma_x, 1)
    ELSE FAdd(cumulative_energy(sigma_x, i - 1), EnergyFraction(sigma_x, i))

\* cumulative_energy[i] < rank, for the 1-based position i.  With zero total
\* energy every entry is 0/0 = NaN, and NaN < rank is false.
EnergyLess(sigma_x, i, rank) ==
    /\ SumSquares(sigma_x, Len(sigma_x)) # 0
    /\ FLt(cumulative_energy(sigma_x, i), FRat(rank.n, rank.d))

RECURSIVE BisectLeft(_, _, _, _)
\* np.searchsorted(cumulative_energy, rank), side "left": binary search on
\* the 0-based interval [lo, hi)
BisectLeft(sigma_x, rank, lo, hi) ==
    IF lo >= hi THEN lo
    ELSE LET mid == lo + (hi - lo) \div 2
         IN  IF EnergyLess(sigma_x, mid + 1, rank)
             THEN BisectLeft(sigma_x, rank, mid + 1, hi)
             ELSE BisectLeft(sigma_x, rank, lo, mid)

searchsorted(sigma_x, rank) == BisectLeft(sigma_x, rank, 0, Len(sigma_x))

\* the rank before the final clamp, or the ValueError of a negative rank
RankUnclamped(sigma_x, rows, cols, rank, sigma) ==
    IF RatLt(Zero, rank) /\ RatLt(rank, One)
    THEN Return(searchsorted(sigma_x, rank) + 1)
    ELSE IF rank.n = 0
    THEN Return(__svht(sigma_x, rows, cols, sigma))
    ELSE IF RatLe(One, rank)
    THEN Return(rank.n \div rank.d)
    ELSE Raise("ValueError")

\* min(__rank, sigma_x.size) of a call that got as far as line 143
Clamped(u, size) == IF u.raised THEN u ELSE Return(Min(u.val, size))

\* mutants of __compute_rank
compute_rank_noclamp(sigma_x, rows, cols, rank, sigma) ==
    RankUnclamped(sigma_x, rows, cols, rank, sigma)

compute_rank_offbyone(sigma_x, rows, cols, rank, sigma) ==
    Clamped(RankUnclamped(sigma_x, rows, cols,
                          IF RatLe(One, rank) THEN Rat(rank.n + rank.d, rank.d)
                          ELSE rank, sigma),
            Len(sigma_x))

\* __rank = min(__rank, sigma_x.size), unless the rank specifier was rejected
__compute_rank(sigma_x, rows, cols, rank, sigma) ==
    Clamped(RankUnclamped(sigma_x, rows, cols, rank, sigma), Len(sigma_x))


(***************************************************************************)
(* Specification SpecRank: one call of __compute_rank on bounded inputs.   *)
(* The singular values come from np.linalg.svd (lines 169 and 453), which  *)
(* returns them non-negative and in descending order.                      *)
(***************************************************************************)
Idle == [called |-> FALSE]

RECURSIVE DescSeqs(_, _)
\* the non-increasing sequences of length len over 0..top
DescSeqs(len, top) ==
    IF len = 0 THEN {<<>>}
    ELSE UNION {{<<v>> \o t : t \in DescSeqs(len - 1, v)} : v \in 0..top}

SigmaVectors == UNION {DescSeqs(len, MaxSigmaVal) : len \in 1..MaxSigmaLen}

RankSpecs == {Rat(n, 1) : n \in -1..MaxRankInt}
             \cup {Rat(n, 4) : n \in -1..(4 * MaxRankInt + 1)}

NoiseLevels == {None} \cup {Some(s) : s \in -1..MaxNoise}

IsFraction(rank) == RatLt(Zero, rank) /\ RatLt(rank, One)

IsIntegerRank(rank) == rank.n >= rank.d /\ rank.n % rank.d = 0

RankArgs ==
    [sigma_x : SigmaVectors, rows : 1..MaxShape, cols : 1..MaxShape,
     rank : RankSpecs, sigma : NoiseLevels]

InitRank ==
    /\ rankCall \in [called : {FALSE}, args : RankArgs, ret : {Return(0)}]
    /\ selCall = Idle
    /\ fnCall = Idle
    /\ run = Idle
    /\ self = Idle
    /\ ret = Idle
    /\ hist = Idle

CallComputeRank ==
    /\ ~rankCall.called
    /\ rankCall' =
        [rankCall EXCEPT
            !.called = TRUE,
            !.ret = __compute_rank(rankCall.args.sigma_x, rankCall.args.rows,
                                   rankCall.args.cols, rankCall.args.rank,
                                   rankCall.args.sigma)]
    /\ UNCHANGED <<selCall, self, ret, hist, fnCall, run>>

NextRank == CallComputeRank

SpecRank == InitRank /\ [][NextRank]_vars

\* C6: whenever the rank estimator returns (a fraction in (0,1), the
\* sentinel 0 or a number >= 1; with or without a noise level), the rank r
\* satisfies 1 <= r <= len(sigma).
RankWithinBounds ==
    (rankCall.called /\ ~rankCall.ret.raised)
        => /\ 1 <= rankCall.ret.val
           /\ rankCall.ret.val <= Len(rankCall.args.sigma_x)

\* a call with an integer rank above len(sigma) returned
RankWithinBoundsWitness ==
    /\ rankCall.called
    /\ ~rankCall.ret.raised
    /\ rankCall.args.rank = Rat(MaxRankInt, 1)
    /\ Len(rankCall.args.sigma_x) = 2
    /\ ~rankCall.args.sigma.none

\* C7: for an integer rank specifier r >= 1 the rank estimator returns
\* exactly min(r, len(sigma)), whatever sigma holds and whatever the shape.
IntegerRankIsMin ==
    (rankCall.called /\ IsIntegerRank(rankCall.args.rank))
        => /\ ~rankCall.ret.raised
           /\ rankCall.ret.val =
                Min(rankCall.args.rank.n \div rankCall.args.rank.d,
                    Len(rankCall.args.sigma_x))

\* a call with integer rank 2 on three singular values returned 2
IntegerRankIsMinWitness ==
    /\ rankCall.called
    /\ rankCall.args.rank = Rat(2, 1)
    /\ Len(rankCall.args.sigma_x) = 3
    /\ rankCall.ret.val = 2

(***************************************************************************)
(* Specification SpecEnergy: one call of __compute_rank with a rank        *)
(* specifier in (0,1), in eighths (exact in float64), on descending        *)
(* singular values of up to MaxEnergyLen entries; the matrix is square.    *)
(***************************************************************************)
EnergyVectors == UNION {DescSeqs(len, MaxEnergyVal) : len \in 1..MaxEnergyLen}

EnergyRanks == {Rat(n, 8) : n \in 1..7}

EnergyArgs ==
    {[sigma_x |-> s, rows |-> Len(s), cols |-> Len(s), rank |-> r,
      sigma |-> None] : s \in EnergyVectors, r \in EnergyRanks}

InitEnergy ==
    /\ rankCall \in [called : {FALSE}, args : EnergyArgs, ret : {Return(0)}]
    /\ selCall = Idle
    /\ fnCall = Idle
    /\ run = Idle
    /\ self = Idle
    /\ ret = Idle
    /\ hist = Idle

SpecEnergy == InitEnergy /\ [][NextRank]_vars

\* the counts k of leading singular values whose energy fraction is >= rank
EnergyCounts(sigma_x, rank) ==
    {k \in 1..Len(sigma_x) :
        SumSquares(sigma_x, k) * rank.d
            >= rank.n * SumSquares(sigma_x, Len(sigma_x))}

\* C8: for a rank specifier in (0,1) and singular values with non-zero
\* total energy, the rank is min(k, len(sigma)) with k the smallest count of
\* leading singular values whose squared sum over the total is >= rank.
\* Violated: for sigma = (4, 2, 1, 1, 1, 1) and rank 7/8 the first three
\* values hold 21/24 = 7/8 of the energy, but the float64 sum
\* 16/24 + 4/24 + 1/24 is 0.8749999999999999 < 0.875 and the rank is 4.
EnergyRankIsSmallestCount ==
    (/\ rankCall.called
     /\ IsFraction(rankCall.args.rank)
     /\ SumSquares(rankCall.args.sigma_x, Len(rankCall.args.sigma_x)) # 0)
        => /\ ~rankCall.ret.raised
           /\ rankCall.ret.val =
                Min(SetMin(EnergyCounts(rankCall.args.sigma_x, rankCall.args.rank)),
                    Len(rankCall.args.sigma_x))

\* C9: for rank specifier 0 the returned rank is the number of singular
\* values >= tau_star, and len(sigma) when there is none.
SvhtRankIsCount ==
    (rankCall.called /\ rankCall.args.rank.n = 0)
        => \A hits \in {SvhtWhere(rankCall.args.sigma_x, rankCall.args.rows,
                                  rankCall.args.cols, rankCall.args.sigma)} :
               /\ ~rankCall.ret.raised
               /\ rankCall.ret.val =
                    IF hits = {} THEN Len(rankCall.args.sigma_x)
                    ELSE Cardinality(hits)

\* an automatic rank that kept some singular values and dropped others
SvhtRankIsCountWitness ==
    /\ rankCall.called
    /\ rankCall.args.rank.n = 0
    /\ rankCall.args.sigma.none
    /\ Len(rankCall.args.sigma_x) = 3
    /\ rankCall.ret.val = 1
    /\ SvhtWhere(rankCall.args.sigma_x, rankCall.args.rows,
                 rankCall.args.cols, rankCall.args.sigma) = {1}


(***************************************************************************)
(* select_best_samples_fast.  An array is its shape: [ndim, rows, cols],   *)
(* cols being shape[-1].  pcolumn is the pivot vector scipy.linalg.qr      *)
(* returns for it: a permutation of the 0-based column positions.          *)
(***************************************************************************)
Array(ndim, rows, cols) == [ndim |-> ndim, rows |-> rows, cols |-> cols]

\* the sequences that hold every element of S exactly once
Permutations(S) ==
    {p \in [1..Cardinality(S) -> S] : \A x \in S : \E i \in DOMAIN p : p[i] = x}

\* pcolumn[:k], also for k beyond the length
Prefix(seq, k) == SubSeq(seq, 1, Min(Max(k, 0), Len(seq)))

\* n_samples = int(data.shape[-1] * (1.0 - comp))
n_samples(cols, comp) ==
    FTrunc(FMul(FromInt(cols), FSub(FromInt(1), FRat(comp.n, comp.d))))

select_best_samples_fast(data, comp, pcolumn) ==
    IF data.ndim # 2 THEN Raise("ValueError")
    ELSE IF ~(RatLt(Zero, comp) /\ RatLt(comp, One)) THEN Raise("ValueError")
    ELSE Return(Prefix(pcolumn, n_samples(data.cols, comp)))

(***************************************************************************)
(* Specification SpecSelect: one call of select_best_samples_fast.         *)
(***************************************************************************)
\* compression fractions in eighths, from below 0 to above 1, and in fifths
Compressions == {Rat(n, 8) : n \in -2..10} \cup {Rat(n, 5) : n \in 1..4}

SelectArgs ==
    [data : {Array(ndim, rows, cols) :
                ndim \in 1..3, rows \in 1..MaxShape, cols \in 1..MaxCols},
     comp : Compressions]

InitSelect ==
    /\ selCall \in [called : {FALSE}, args : SelectArgs, ret : {Return(<<>>)}]
    /\ rankCall = Idle
    /\ fnCall = Idle
    /\ run = Idle
    /\ self = Idle
    /\ ret = Idle
    /\ hist = Idle

CallSelect ==
    /\ ~selCall.called
    /\ \E pcolumn \in Permutations(0..(selCall.args.data.cols - 1)) :
        selCall' =
            [selCall EXCEPT
                !.called = TRUE,
                !.ret = select_best_samples_fast(selCall.args.data,
                                                 selCall.args.comp, pcolumn)]
    /\ UNCHANGED <<rankCall, self, ret, hist, fnCall, run>>

NextSelect == CallSelect

SpecSelect == InitSelect /\ [][NextSelect]_vars

\* C10: on a 2-D matrix with m columns and 0 < c < 1 the selector returns
\* exactly floor((1-c)*m) indices, pairwise distinct and all in [0, m);
\* for c <= 0, c >= 1 or a non-2-D input it raises ValueError.
\* Violated: with m = 5 and c = 4/5 the float64 product 5 * (1.0 - 0.8) is
\* 0.9999999999999998 and int() gives 0 indices where floor((1-c)*m) = 1.
SelectorCountAndRange ==
    selCall.called =>
        LET data == selCall.args.data
            c == selCall.args.comp
            m == data.cols
            idx == selCall.ret.val
        IN  IF data.ndim = 2 /\ RatLt(Zero, c) /\ RatLt(c, One)
            THEN /\ ~selCall.ret.raised
                 /\ Len(idx) * c.d <= (c.d - c.n) * m
                 /\ (c.d - c.n) * m < (Len(idx) + 1) * c.d
                 /\ \A i, j \in DOMAIN idx : i # j => idx[i] # idx[j]
                 /\ \A i \in DOMAIN idx : 0 <= idx[i] /\ idx[i] < m
            ELSE /\ selCall.ret.raised
                 /\ selCall.ret.exc = "ValueError"


(***************************************************************************)
(* compute_varprodmd_any.                                                  *)
(*                                                                         *)
(* A data matrix is its shape and the singular values np.linalg.svd        *)
(* returns for it: [ndim, rows, cols, s]; it has at least two columns.  A  *)
(* time vector is its shape, [ndim, size]; its entries are named by their  *)
(* 0-based positions, so time[indices] is the index sequence itself.  A    *)
(* complex number is a pair <<re, im>> of integers.                        *)
(*                                                                         *)
(* The answers of the numerical libraries are an argument, lib:            *)
(*   lib.sigma_y singular values np.linalg.svd returns for y_in in         *)
(*               __compute_dmd_ev (0 is an exact zero)                     *)
(*   lib.ev      eigenvalues np.linalg.eigvals returns in __compute_dmd_ev *)
(*   lib.evreal  whether that array is of a real type: np.linalg.eigvals   *)
(*               gives a float64 array for a real matrix whose eigenvalues *)
(*               all have a zero imaginary part (lib.ev then holds zero    *)
(*               imaginary parts), a complex128 array otherwise            *)
(*   lib.pcolumn pivot vector of scipy.linalg.qr                           *)
(*   lib.sol     the eigenvalues least_squares converges to (opt.x is      *)
(*               their real-split packing)                                 *)
(*   lib.argsort the answer of np.argsort in compute_operator              *)
(* work is the list of numerical steps a call has performed so far.        *)
(***************************************************************************)
Data(ndim, rows, cols, s) == [ndim |-> ndim, rows |-> rows, cols |-> cols, s |-> s]

Time(ndim, size) == [ndim |-> ndim, size |-> size]

Re(z) == z[1]

Im(z) == z[2]

\* omegas_in: real parts followed by imaginary parts (lines 465-467)
Pack(z) ==
    [i \in 1..(2 * Len(z)) |-> IF i <= Len(z) THEN Re(z[i]) ELSE Im(z[i - Len(z)])]

\* mutant of Unpack: the halves are taken in the other order
Unpack_swapped(x) ==
    LET half == Len(x) \div 2
    IN  [j \in 1..half |-> <<x[half + j], x[j]>>]

\* omegas.real = x[: size // 2]; omegas.imag = x[size // 2 :] (lines 491-492;
\* lines 234-236 and 293-295 split alphas into __alphas in the same way)
Unpack(x) ==
    LET half == Len(x) \div 2
    IN  [j \in 1..half |-> <<x[j], x[half + j]>>]

\* np.arange(n)
Arange(n) == [i \in 1..n |-> i - 1]

Ones(n) == [i \in 1..n |-> 1]

\* a call that raised after the steps work, and one that returned val
Failed(exc, work) ==
    [raised |-> TRUE, exc |-> exc, work |-> work, warned |-> FALSE, val |-> <<>>]

\* a call that raised after the underdetermined-system warning was decided
Raised(exc, work, warned) ==
    [raised |-> TRUE, exc |-> exc, work |-> work, warned |-> warned, val |-> <<>>]

Done(val, work, warned) ==
    [raised |-> FALSE, exc |-> "", work |-> work, warned |-> warned, val |-> val]

\* the shapes a and b of two arrays along one axis can be broadcast
Broadcastable(a, b) == a = b \/ a = 1 \/ b = 1

\* the broadcast shape along that axis
Broadcast(a, b) == IF a = 1 THEN b ELSE a

\* y_in (line 461): one column less than data_in; s is what np.linalg.svd
\* returns for it
y_in(rows_in, cols, s) == [rows |-> rows_in, cols |-> cols - 1, s |-> s]

\* the size of dt_in = time[1:] - time[:-1] (line 462)
dt_in(time) == Max(time.size - 1, 0)

\* z_in (line 463): the differences of the columns of data_in, divided by
\* dt_in as a row
z_in(rows_in, cols, time) ==
    [rows |-> rows_in, cols |-> Broadcast(cols - 1, dt_in(time))]

\* lines 177-187 of __compute_dmd_ev, rk being the outcome of __compute_rank
\* on the singular values of x_current
InitialEigenvalues(x_current, x_next, rk, ev) ==
    IF rk.raised THEN rk
    \* multi_dot (line 179): u^H, x_next and the scaled v have to match
    ELSE IF x_next.rows # x_current.rows \/ x_next.cols # x_current.cols
    THEN Raise("ValueError")
    \* the reciprocal of a zero singular value is inf, a_approx is not
    \* finite and np.linalg.eigvals (line 187) rejects it
    ELSE IF \E i \in 1..rk.val : x_current.s[i] = 0
    THEN Raise("LinAlgError")
    ELSE Return(Prefix(ev, rk.val))

\* x_current is [rows, cols, s], s being the singular values of its SVD
\* (line 169); x_next is [rows, cols]
__compute_dmd_ev(x_current, x_next, rank, ev) ==
    InitialEigenvalues(x_current, x_next,
                       __compute_rank(x_current.s, x_current.rows,
                                      x_current.cols, rank, None),
                       ev)

\* mutant of SelectIndices: a selection of a single index is used as it is
SelectIndices_single(cols, compression, sel) ==
    IF RatLt(Zero, compression)
    THEN IF Len(sel.val) > 0 THEN sel.val ELSE Arange(cols)
    ELSE Arange(cols)

\* the index sequence handed to the solver (lines 469-480)
SelectIndices(cols, compression, sel) ==
    IF RatLt(Zero, compression)
    THEN IF Len(sel.val) > 1 THEN sel.val ELSE Arange(cols)
    ELSE Arange(cols)

\* lines 464-495 of compute_varprodmd_any, ev being the outcome of
\* __compute_dmd_ev and sel that of the selector: the solver run on the
\* selected snapshots, started from the initial eigenvalues, and the results
\* that are returned
Optimize(data, time, rows_in, ev, sel, compression, lib) ==
    IF ev.raised THEN Failed(ev.exc, <<"svd", "rank">>)
    ELSE IF RatLt(Zero, compression) /\ sel.raised
    THEN Failed(sel.exc, <<"svd", "rank", "init_eigs">>)
    ELSE
    LET omegas == ev.val
        omegas_in == Pack(omegas)
        indices == SelectIndices(data.cols, compression, sel)
        \* the size of time_in: time[indices] (line 476) or time (479)
        time_in == IF RatLt(Zero, compression) THEN Len(indices) ELSE time.size
        warned == Len(indices) < Len(omegas)
        \* least_squares returns x of the length of omegas_in
        x == Pack(Prefix(lib.sol, Len(omegas_in) \div 2))
        omegas_out == Unpack(x)
        \* xi: data.rows x len(omegas), columns in solver order
        xi_cols == Arange(Len(omegas_out))
        work == <<"svd", "rank", "init_eigs">>
                    \o (IF RatLt(Zero, compression) THEN <<"qr">> ELSE <<>>)
                    \o <<"solver">>
    IN  \* line 476: an index beyond the end of time
        IF /\ RatLt(Zero, compression)
           /\ \E i \in DOMAIN indices : indices[i] >= time.size
        THEN Failed("IndexError", <<"svd", "rank", "init_eigs", "qr">>)
        \* the residual of the first solver step (line 244): time_in and the
        \* rows of data_in.T have to match
        ELSE IF time_in # Len(indices) THEN Raised("ValueError", work, warned)
        \* line 492: the imaginary part of a float64 array cannot be set
        ELSE IF lib.evreal THEN Raised("TypeError", work, warned)
        ELSE Done([modes |-> [rows |-> data.rows, cols |-> xi_cols],
                   omegas |-> omegas_out,
                   eigenf |-> xi_cols,
                   indices |-> indices,
                   opt |-> [x |-> x,
                            fun |-> 2 * Len(indices) * rows_in,
                            jac |-> <<2 * Len(indices) * rows_in, Len(x)>>],
                   \* what least_squares was called with: omegas_in, time_in
                   \* and the columns of data_in, by their positions
                   solver |-> [x0 |-> omegas_in, time_in |-> indices,
                               data_in |-> indices]],
                  work, warned)

\* lines 454-480 of compute_varprodmd_any, rk being the outcome of
\* __compute_rank: the initial eigenvalues and the selection of snapshots
InitialiseAndSelect(data, time, rk, use_proj, compression, lib) ==
    IF rk.raised THEN Failed(rk.exc, <<"svd">>)
    ELSE
    LET rows_in == IF use_proj THEN rk.val ELSE data.rows
    IN  \* line 463: the division by dt_in as a row
        IF ~Broadcastable(data.cols - 1, dt_in(time))
        THEN Failed("ValueError", <<"svd", "rank">>)
        ELSE Optimize(data, time, rows_in,
                      __compute_dmd_ev(y_in(rows_in, data.cols, lib.sigma_y),
                                       z_in(rows_in, data.cols, time),
                                       Rat(rk.val, 1), lib.ev),
                      select_best_samples_fast(Array(2, rows_in, data.cols),
                                               compression, lib.pcolumn),
                      compression, lib)

compute_varprodmd_any(data, time, rank, use_proj, compression, lib) ==
    IF data.ndim # 2 THEN Failed("ValueError", <<>>)
    ELSE IF time.ndim # 1 THEN Failed("ValueError", <<>>)
    ELSE \* line 453: SVD of data, then line 454: the rank
         InitialiseAndSelect(data, time,
                             __compute_rank(data.s, data.rows, data.cols, rank, None),
                             use_proj, compression, lib)


(***************************************************************************)
(* VarProOperator.  The operator is the record of its fields; an optional  *)
(* field is [st, v] with st "None" (holds None), "unset" (the attribute    *)
(* does not exist) or "set".  sorted_eigs is [t, v]: a bool ("True",       *)
(* "False") or a str.                                                      *)
(***************************************************************************)
NoneValue == [st |-> "None", v |-> <<>>]

Unset == [st |-> "unset", v |-> <<>>]

Set(x) == [st |-> "set", v |-> x]

Bool(b) == [t |-> "bool", v |-> b]

Str(x) == [t |-> "str", v |-> x]

RECURSIVE SumSeq(_)
SumSeq(x) == IF x = <<>> THEN 0 ELSE Head(x) + SumSeq(Tail(x))

\* arr - arrmean, squared, entry i (np.var: arrmean = umr_sum(arr) / n)
SquaredDeviation(x, i, arrmean) ==
    FMul(FSub(FromInt(x[i]), arrmean), FSub(FromInt(x[i]), arrmean))

RECURSIVE SumSquaredDeviations(_, _, _)
\* umr_sum of the first k squared deviations, added one by one
SumSquaredDeviations(x, k, arrmean) ==
    IF k = 0 THEN FromInt(0)
    ELSE FAdd(SumSquaredDeviations(x, k - 1, arrmean),
              SquaredDeviation(x, k, arrmean))

VarAround(x, arrmean) ==
    FDiv(SumSquaredDeviations(x, Len(x), arrmean), FromInt(Len(x)))

\* np.var(x) of integer-valued entries, whose sum is exact
Var(x) == VarAround(x, FDiv(FromInt(SumSeq(x)), FromInt(Len(x))))

\* np.abs of a complex number whose modulus is an integer
Modulus(z) ==
    CHOOSE k \in 0..(Abs(Re(z)) + Abs(Im(z))) : k * k = Re(z) * Re(z) + Im(z) * Im(z)

\* the array the eigenvalues are sorted by (lines 646-665)
SortKey(policy, eigenvalues) ==
    LET eigs_real == [i \in DOMAIN eigenvalues |-> Re(eigenvalues[i])]
        eigs_imag == [i \in DOMAIN eigenvalues |-> Im(eigenvalues[i])]
        eigs_abs == [i \in DOMAIN eigenvalues |-> Modulus(eigenvalues[i])]
    IN  IF policy = "auto"
        THEN \* np.argmax of (var_real, var_imag, var_abs): the first of the
             \* largest
             IF /\ FGe(Var(eigs_real), Var(eigs_imag))
                /\ FGe(Var(eigs_real), Var(eigs_abs)) THEN eigs_real
             ELSE IF FGe(Var(eigs_imag), Var(eigs_abs)) THEN eigs_imag
             ELSE eigs_abs
        ELSE IF policy = "real"
        THEN [i \in DOMAIN eigenvalues |-> Abs(eigs_real[i])]
        ELSE IF policy = "imag"
        THEN [i \in DOMAIN eigenvalues |-> Abs(eigs_imag[i])]
        ELSE eigs_abs

\* what np.argsort may return for key: 1-based positions in ascending order
\* of key, equal keys in any order
ArgSorts(key) ==
    {q \in Permutations(DOMAIN key) :
        \A i \in 1..(Len(key) - 1) : key[q[i]] <= key[q[i + 1]]}

\* mutant of Reverse: the ascending order of np.argsort is kept
Reverse_none(q) == q

Reverse(q) == [i \in DOMAIN q |-> q[Len(q) + 1 - i]]

\* x[idx]
Take(x, idx) == [i \in DOMAIN idx |-> x[idx[i]]]

SortPolicies == {"auto", "real", "imag", "abs"}

\* the value of _sorted_eigs after lines 641-643
LazySortedEigs(sorted_eigs) ==
    IF sorted_eigs.t = "bool" /\ sorted_eigs.v = "True" THEN Str("auto") ELSE sorted_eigs

\* mutant of OperatorAfterRaise: the fields are cleared before the
\* computation and stay cleared when it raises
OperatorAfterRaise_reset(op) ==
    [op EXCEPT !.modes = NoneValue, !.eigenvalues = NoneValue]

\* the operator after compute_varprodmd_any raised: the assignment of lines
\* 625-638 has not taken place
OperatorAfterRaise(op) == op

\* lines 629-674 of compute_operator, res being the returning outcome of
\* compute_varprodmd_any: the assignment, then the sorting
AssignAndSort(op, res, lib) ==
    LET sorted_eigs == LazySortedEigs(op.sorted_eigs)
        assigned == [op EXCEPT !.modes = Set(res.val.modes),
                               !.eigenvalues = Set(res.val.omegas),
                               !.sorted_eigs = sorted_eigs]
    IN  IF sorted_eigs.t # "str"
        THEN [op |-> assigned,
              out |-> Done([eigenf |-> res.val.eigenf, opt |-> res.val.opt,
                            indices |-> res.val.indices],
                           res.work, res.warned)]
        ELSE IF sorted_eigs.v \notin SortPolicies
        THEN [op |-> assigned,
              out |-> Raised("ValueError", res.work, res.warned)]
        ELSE
        \* 0-based idx, biggest key first (line 669)
        LET idx == Reverse(lib.argsort)
        IN  [op |-> [assigned EXCEPT
                        !.modes = Set([rows |-> res.val.modes.rows,
                                       cols |-> Take(res.val.modes.cols, idx)]),
                        !.eigenvalues = Set(Take(res.val.omegas, idx))],
             out |-> Done([eigenf |-> Take(res.val.eigenf, idx),
                           opt |-> res.val.opt,
                           indices |-> res.val.indices],
                          res.work \o <<"argsort">>, res.warned)]

\* res is the outcome of the call of compute_varprodmd_any at lines 625-638
AfterVarProDMD(op, res, lib) ==
    IF res.raised THEN [op |-> OperatorAfterRaise(op), out |-> res]
    ELSE AssignAndSort(op, res, lib)

compute_operator(op, X, time, lib) ==
    AfterVarProDMD(op,
                   compute_varprodmd_any(X, time, op.svd_rank, ~op.exact,
                                         op.compression, lib),
                   lib)


(***************************************************************************)
(* VarProDMD.  self.op is _Atilde; b, original_time and dmd_time are       *)
(* attributes that __init__ does not create.                               *)
(***************************************************************************)
VarProOperator(svd_rank, exact, sorted_eigs, compression) ==
    [svd_rank |-> svd_rank, exact |-> exact, sorted_eigs |-> sorted_eigs,
     compression |-> compression, modes |-> NoneValue, eigenvalues |-> NoneValue]

VarProDMD(svd_rank, exact, sorted_eigs, compression) ==
    [op |-> VarProOperator(svd_rank, exact, sorted_eigs, compression),
     optres |-> NoneValue, snapshots_holder |-> NoneValue, indices |-> NoneValue,
     b |-> Unset, original_time |-> Unset, dmd_time |-> Unset]

\* DMDBase.fitted: the operator holds modes
fitted(obj) == obj.op.modes.st # "None"

\* DMDBase.eigs: the operator's eigenvalues
eigs(obj) == obj.op.eigenvalues

\* DMDBase.amplitudes: the attribute _b
amplitudes(obj) == obj.b

\* Snapshots(X): the holder of the snapshots
Snapshots(X) == "Snapshots"

Ok == [raised |-> FALSE, exc |-> "", at |-> 0]

\* an exception, raised at line at of varprodmd.py
Error(exc, at) == [raised |-> TRUE, exc |-> exc, at |-> at]

\* reading an attribute of a value: None has none, and neither has a
\* missing attribute
Readable(field) == field.st = "set"

\* lines 776-780 of fit, res being the outcome of compute_operator
AssignFit(held, res, time) ==
    IF res.out.raised
    THEN [obj |-> [held EXCEPT !.op = res.op], out |-> res.out]
    ELSE [obj |-> [held EXCEPT !.op = res.op,
                               !.b = Set(res.out.val.eigenf),
                               !.optres = Set(res.out.val.opt),
                               !.indices = Set(res.out.val.indices),
                               !.original_time = Set(time),
                               !.dmd_time = Set(res.out.val.indices)],
          out |-> res.out]

fit(obj, X, time, lib) ==
    AssignFit([obj EXCEPT !.snapshots_holder = Set(Snapshots(X))],
              compute_operator(obj.op, X, time, lib), time)

\* line 525: phi @ (np.exp(np.outer(omegas, time)) * eigenf.reshape(-1, 1)).
\* The product of the (len(omegas), len(time)) matrix with the
\* (len(eigenf), 1) column broadcasts over the rows, and the matrix product
\* needs as many columns of phi as the result has rows.
optdmd_predict(phi, omegas, eigenf) ==
    IF ~Broadcastable(Len(omegas), Len(eigenf)) THEN Error("ValueError", 525)
    ELSE IF Len(phi.cols) # Broadcast(Len(omegas), Len(eigenf))
    THEN Error("ValueError", 525)
    ELSE Ok

forecast(obj) ==
    IF ~fitted(obj) THEN Error("ValueError", 794)
    ELSE IF obj.b.st = "unset" THEN Error("AttributeError", 799)
    ELSE optdmd_predict(obj.op.modes.v, obj.op.eigenvalues.v, obj.b.v)

ssr(obj) ==
    IF ~fitted(obj) THEN Error("ValueError", 817)
    ELSE IF ~Readable(obj.optres) THEN Error("AttributeError", 819)
    ELSE IF ~Readable(obj.original_time) THEN Error("AttributeError", 828)
    ELSE Ok

selected_samples(obj) ==
    IF ~fitted(obj) THEN Error("ValueError", 853) ELSE Ok

opt_stats(obj) ==
    IF ~fitted(obj) THEN Error("ValueError", 873) ELSE Ok

\* lines 886-887: the (len(amplitudes), 1) column times the
\* (len(eigs), len(time)) matrix broadcasts over the rows
dynamics(obj) ==
    IF obj.original_time.st = "unset" THEN Error("AttributeError", 886)
    ELSE IF amplitudes(obj).st = "unset" THEN Error("AttributeError", 887)
    ELSE IF ~Broadcastable(Len(amplitudes(obj).v), Len(eigs(obj).v))
    THEN Error("ValueError", 887)
    ELSE Ok

frequency(obj) ==
    IF ~Readable(eigs(obj)) THEN Error("AttributeError", 898) ELSE Ok

growth_rate(obj) ==
    IF ~Readable(eigs(obj)) THEN Error("AttributeError", 909) ELSE Ok


(***************************************************************************)
(* Specification Spec: one VarProDMD instance, constructed with any of the *)
(* configurations below, on which fit, compute_operator (of its operator), *)
(* forecast and the properties are called in any order.  ret is the        *)
(* outcome of the last call, hist.fits tells whether fit was never called  *)
(* ("never"), was called without ever succeeding ("failed") or has         *)
(* succeeded at least once ("succeeded").                                  *)
(***************************************************************************)
ConfigRanks == {Rat(-1, 1), Rat(0, 1), Rat(1, 2), Rat(2, 1)}

ConfigSortedEigs ==
    {Bool("False"), Bool("True"), Str("auto"), Str("real"), Str("imag"),
     Str("abs"), Str("bogus")}

\* the sort policies of the instance: none, the automatic one and an
\* unsupported string
InstanceSortedEigs == {Bool("False"), Bool("True"), Str("bogus")}

ConfigCompressions == {Rat(-1, 8), Rat(0, 8), Rat(1, 8), Rat(8, 8)}

\* eigenvalues the solver may converge to on the fitted data
EigChoices == {<<0, 1>>}

RECURSIVE SeqsOf(_, _)
\* the sequences of length len over S
SeqsOf(S, len) ==
    IF len = 0 THEN {<<>>}
    ELSE {<<x>> \o t : x \in S, t \in SeqsOf(S, len - 1)}

\* singular values of full-rank data: all equal, or a dominant first one
FitSigmas(len) == {Ones(len), [i \in 1..len |-> IF i = 1 THEN 2 ELSE 1]}

\* a 1-D array, a 3-D array, a matrix of two snapshots and a square matrix
\* of MaxFitCols snapshots, which has more eigenvalues than the matrix of
\* two snapshots
FitData ==
    {Data(1, 1, MaxFitCols, <<>>), Data(3, 2, 2, <<>>), Data(2, 2, 2, Ones(2)),
     Data(2, MaxFitCols, MaxFitCols, Ones(MaxFitCols))}

\* a time vector of one timestamp per column, of two timestamps or of one
\* timestamp too many, and (wrongly) a 2-D array; for the matrices of more
\* than two snapshots, one timestamp per column
FitTimes(X) ==
    IF X.cols > 2 THEN {Time(1, X.cols)}
    ELSE {Time(1, size) : size \in {2, X.cols, X.cols + 1}} \cup {Time(2, X.cols)}

\* the singular values of a matrix with k of them: none of them is zero, or
\* the last one is
SigmaAnswers(k) == {Ones(k), [i \in 1..k |-> IF i < k THEN 1 ELSE 0]}

\* the pivot orders of the QR decomposition: the columns as they are, or
\* in reverse
PivotOrders(n) == {Arange(n), Reverse(Arange(n))}

\* the library calls a fit does not reach are given these answers
DefaultLib(X) ==
    [sigma_y |-> Ones(X.cols),
     ev |-> [i \in 1..X.cols |-> <<0, 0>>], evreal |-> FALSE,
     pcolumn |-> Arange(X.cols),
     sol |-> [i \in 1..X.cols |-> <<0, 0>>], argsort |-> <<>>]

\* the singular values np.linalg.svd may return for y_in, which has the rows
\* of data_in and one column less than X; rk is the outcome of __compute_rank
SigmaYAnswers(X, rk, use_proj) ==
    IF rk.raised THEN {DefaultLib(X).sigma_y}
    ELSE SigmaAnswers(Min(IF use_proj THEN rk.val ELSE X.rows, X.cols - 1))

\* the answers of a call in which y_in has no zero singular value
ProbeLib(X, rk, use_proj) ==
    [DefaultLib(X) EXCEPT
        !.sigma_y = Ones(Min(IF use_proj THEN rk.val ELSE X.rows, X.cols - 1))]

\* the answers the libraries may give during compute_operator(op, X, time):
\* sigmas are those of the SVD of y_in, probe is the outcome of the call when
\* y_in has no zero singular value, which tells which libraries are reached
\* and how many eigenvalues there are
LibAnswersAfter(op, X, sigmas, probe) ==
    LET policy == LazySortedEigs(op.sorted_eigs)
    IN  IF probe.raised /\ Len(probe.work) < 2 THEN {DefaultLib(X)}
        ELSE IF probe.raised
        THEN {[DefaultLib(X) EXCEPT !.sigma_y = sigma_y] : sigma_y \in sigmas}
        ELSE {[DefaultLib(X) EXCEPT !.sigma_y = sigma_y, !.evreal = TRUE] :
                sigma_y \in sigmas} \cup
             {[sigma_y |-> sigma_y,
               ev |-> DefaultLib(X).ev, evreal |-> FALSE, pcolumn |-> pcolumn,
               sol |-> sol, argsort |-> argsort] :
                sigma_y \in sigmas,
                pcolumn \in (IF RatLt(Zero, op.compression)
                             THEN PivotOrders(X.cols)
                             ELSE {Arange(X.cols)}),
                <<sol, argsort>> \in
                    UNION {{<<sl, q>> :
                              q \in (IF policy.t = "str" /\ policy.v \in SortPolicies
                                     THEN ArgSorts(SortKey(policy.v, sl))
                                     ELSE {<<>>})} :
                           sl \in SeqsOf(EigChoices, Len(probe.val.omegas))}}

\* the answers for the rank rk of X (lines 453-454)
LibAnswersFor(op, X, time, rk) ==
    LibAnswersAfter(op, X, SigmaYAnswers(X, rk, ~op.exact),
                    InitialiseAndSelect(X, time, rk, ~op.exact, op.compression,
                                        ProbeLib(X, rk, ~op.exact)))

LibAnswers(op, X, time) ==
    IF X.ndim # 2 \/ time.ndim # 1 THEN {DefaultLib(X)}
    ELSE LibAnswersFor(op, X, time,
                       __compute_rank(X.s, X.rows, X.cols, op.svd_rank, None))

NoCall ==
    [op |-> "none", raised |-> FALSE, exc |-> "", at |-> 0, work |-> <<>>,
     warned |-> FALSE]

Outcome(op, out) ==
    [op |-> op, raised |-> out.raised, exc |-> out.exc, at |-> out.at,
     work |-> <<>>, warned |-> FALSE]

Init ==
    /\ self \in {VarProDMD(svd_rank, exact, sorted_eigs, compression) :
                    svd_rank \in ConfigRanks, exact \in BOOLEAN,
                    sorted_eigs \in InstanceSortedEigs,
                    compression \in ConfigCompressions}
    /\ ret = NoCall
    /\ hist = [fits |-> "never"]
    /\ rankCall = Idle
    /\ selCall = Idle
    /\ fnCall = Idle
    /\ run = Idle

\* the outcome of a call of fit, and what it means for the history
FitOutcome(out) ==
    [op |-> "fit", raised |-> out.raised, exc |-> out.exc, at |-> 0,
     work |-> out.work, warned |-> out.warned]

FitHistory(h, out) ==
    [fits |-> IF ~out.raised THEN "succeeded"
              ELSE IF h.fits = "never" THEN "failed"
              ELSE h.fits]

Returned(res) ==
    /\ self' = res.obj
    /\ ret' = FitOutcome(res.out)
    /\ hist' = FitHistory(hist, res.out)

Fit ==
    \E X \in FitData :
      \E time \in FitTimes(X) :
        \E lib \in LibAnswers(self.op, X, time) :
          /\ Returned(fit(self, X, time, lib))
          /\ UNCHANGED <<rankCall, selCall, fnCall, run>>

\* compute_operator called on the operator of the instance: fit's
\* assignments of lines 776-780 do not take place
OperatorCalled(res) ==
    /\ self' = [self EXCEPT !.op = res.op]
    /\ ret' = [FitOutcome(res.out) EXCEPT !.op = "compute_operator"]

ComputeOperator ==
    \E X \in FitData :
      \E time \in FitTimes(X) :
        \E lib \in LibAnswers(self.op, X, time) :
          /\ OperatorCalled(compute_operator(self.op, X, time, lib))
          /\ UNCHANGED <<hist, rankCall, selCall, fnCall, run>>

Forecast ==
    /\ ret' = Outcome("forecast", forecast(self))
    /\ UNCHANGED <<self, hist, rankCall, selCall, fnCall, run>>

ReadSsr ==
    /\ ret' = Outcome("ssr", ssr(self))
    /\ UNCHANGED <<self, hist, rankCall, selCall, fnCall, run>>

ReadSelectedSamples ==
    /\ ret' = Outcome("selected_samples", selected_samples(self))
    /\ UNCHANGED <<self, hist, rankCall, selCall, fnCall, run>>

ReadOptStats ==
    /\ ret' = Outcome("opt_stats", opt_stats(self))
    /\ UNCHANGED <<self, hist, rankCall, selCall, fnCall, run>>

ReadDynamics ==
    /\ ret' = Outcome("dynamics", dynamics(self))
    /\ UNCHANGED <<self, hist, rankCall, selCall, fnCall, run>>

ReadFrequency ==
    /\ ret' = Outcome("frequency", frequency(self))
    /\ UNCHANGED <<self, hist, rankCall, selCall, fnCall, run>>

ReadGrowthRate ==
    /\ ret' = Outcome("growth_rate", growth_rate(self))
    /\ UNCHANGED <<self, hist, rankCall, selCall, fnCall, run>>

Next ==
    \/ Fit
    \/ ComputeOperator
    \/ Forecast
    \/ ReadSsr
    \/ ReadSelectedSamples
    \/ ReadOptStats
    \/ ReadDynamics
    \/ ReadFrequency
    \/ ReadGrowthRate

Spec == Init /\ [][Next]_vars


ReadOps ==
    {"forecast", "ssr", "selected_samples", "opt_stats", "dynamics",
     "frequency", "growth_rate"}

\* the call raised ValueError
RaisedValueError(out) == out.raised /\ out.exc = "ValueError"

\* the lines of the not-fitted errors of forecast, ssr, selected_samples and
\* opt_stats
NotFittedRaises == {794, 817, 853, 873}

\* the call raised the not-fitted error
RaisedNotFitted(out) == RaisedValueError(out) /\ out.at \in NotFittedRaises

\* C1: on an instance on which fit has never been called, forecast, ssr,
\* selected_samples, opt_stats, dynamics, frequency and growth_rate all fail
\* with the not-fitted ValueError; after a successful fit none of them raises.
UnfitReadsRaiseNotFitted ==
    /\ (hist.fits = "never" /\ ret.op \in ReadOps) => RaisedNotFitted(ret)
    /\ (hist.fits = "succeeded" /\ ret.op \in ReadOps) => ~ret.raised

\* C2: when every fit call made so far on the instance has raised, the
\* operator's modes and eigenvalues are still unset and forecast, ssr,
\* selected_samples and opt_stats still fail with the not-fitted ValueError.
FailedFitLeavesUnfitted ==
    hist.fits = "failed" =>
        /\ self.op.modes.st = "None"
        /\ self.op.eigenvalues.st = "None"
        /\ RaisedNotFitted(forecast(self))
        /\ RaisedNotFitted(ssr(self))
        /\ RaisedNotFitted(selected_samples(self))
        /\ RaisedNotFitted(opt_stats(self))

\* C3: once a fit call has succeeded, after any later fit calls (succeeding
\* or failing), forecast calls and property reads the model is still fitted:
\* its modes and eigenvalues are set and forecast does not raise the
\* not-fitted error.
FittedIsPermanent ==
    hist.fits = "succeeded" =>
        /\ self.op.modes.st = "set"
        /\ self.op.eigenvalues.st = "set"
        /\ fitted(self)
        /\ ~RaisedNotFitted(forecast(self))
        /\ (ret.op = "forecast" => ~RaisedNotFitted(ret))

\* a fit call raised on an instance that an earlier fit call had fitted
FittedIsPermanentWitness ==
    /\ hist.fits = "succeeded"
    /\ ret.op = "fit"
    /\ ret.raised
    /\ self.op.modes.st = "set"

\* C4: every invalid-argument error of a fit is raised before any numerical
\* work: when fit raises ValueError, no SVD, rank estimation, initial
\* eigenvalue computation, QR selection or solver run of that fit was done.
InvalidArgumentBeforeNumericalWork ==
    (ret.op = "fit" /\ ret.raised /\ ret.exc = "ValueError") => ret.work = <<>>

\* C5: a fit configured with a compression fraction c < 0 or c >= 1 fails
\* with ValueError and returns no result.
OutOfRangeCompressionRaises ==
    (/\ ret.op = "fit"
     /\ \/ RatLt(self.op.compression, Zero)
        \/ RatLe(One, self.op.compression))
        => RaisedValueError(ret)


(***************************************************************************)
(* Specification SpecPack: the eigenvalue vector on its way through one    *)
(* call of compute_varprodmd_any.  omegas is packed into omegas_in (lines  *)
(* 464-467), which is the initial point x0 of least_squares.  The solver   *)
(* begins with the residual and the Jacobian at x0, and each unpacks the   *)
(* vector it is handed (lines 234-236 and 293-295).  When the solver has   *)
(* returned, opt.x is split into omegas (lines 491-492).  opt.x is the     *)
(* solver's answer, a real vector of the shape of x0: x0 itself or x0      *)
(* moved in one entry.                                                     *)
(*                                                                         *)
(* omegas is the array np.linalg.eigvals returned (line 187): complex128,  *)
(* or float64 when all the eigenvalues of a real matrix are real.  A       *)
(* float64 array has a read-only zero imaginary part: it is packed like a  *)
(* complex one, but line 492 cannot assign to it.  args holds the values   *)
(* of the array at the call and omegas its values as lines 491-492 leave   *)
(* them.                                                                   *)
(***************************************************************************)
\* the parts of the complex numbers that are packed
PackParts == -MaxPart..MaxPart

ComplexVectors ==
    UNION {SeqsOf(PackParts \X PackParts, len) : len \in 1..MaxPackLen}

\* opt.x, of the shape of x0
SolverAnswers(x0) ==
    {x0} \cup {[x0 EXCEPT ![i] = v] : i \in DOMAIN x0, v \in PackParts}

\* the types np.linalg.eigvals may give an array of the values z
Dtypes(z) ==
    IF \A i \in DOMAIN z : Im(z[i]) = 0 THEN {"complex128", "float64"}
    ELSE {"complex128"}

\* omegas.real = real on an array of the values z: the imaginary parts stay
AssignReal(z, real) == [i \in DOMAIN z |-> <<real[i], Im(z[i])>>]

InitPack ==
    /\ \E z \in ComplexVectors : \E dtype \in Dtypes(z) :
         fnCall = [pc |-> "start", fn |-> "pack", args |-> z, dtype |-> dtype,
                   omegas |-> z, packed |-> <<>>, rho_alphas |-> <<>>,
                   jac_alphas |-> <<>>, x |-> <<>>, exc |-> "", ret |-> <<>>]
    /\ rankCall = Idle
    /\ selCall = Idle
    /\ self = Idle
    /\ ret = Idle
    /\ hist = Idle
    /\ run = Idle

\* lines 464-467: omegas_in
PackOmegas ==
    /\ fnCall.pc = "start"
    /\ fnCall' = [fnCall EXCEPT !.pc = "packed",
                                !.packed = Pack(fnCall.args)]
    /\ UNCHANGED <<rankCall, selCall, self, ret, hist, run>>

\* lines 234-236 in fun(x0), the first call least_squares makes; it raises
\* ValueError when the residual is not finite
UnpackInResidual ==
    /\ fnCall.pc = "packed"
    /\ \E finite \in BOOLEAN :
         fnCall' = [fnCall EXCEPT !.pc = IF finite THEN "rho" ELSE "raised",
                                  !.exc = IF finite THEN "" ELSE "ValueError",
                                  !.rho_alphas = Unpack(fnCall.packed)]
    /\ UNCHANGED <<rankCall, selCall, self, ret, hist, run>>

\* lines 293-295 in jac(x0)
UnpackInJacobian ==
    /\ fnCall.pc = "rho"
    /\ fnCall' = [fnCall EXCEPT !.pc = "jac",
                                !.jac_alphas = Unpack(fnCall.packed)]
    /\ UNCHANGED <<rankCall, selCall, self, ret, hist, run>>

\* least_squares returns opt (line 488); lines 491-492 split opt.x into
\* omegas, which is returned.  On a float64 array line 491 assigns the first
\* half and line 492 raises TypeError.
RecombineOptX ==
    /\ fnCall.pc = "jac"
    /\ \E x \in SolverAnswers(fnCall.packed) :
         fnCall' = IF fnCall.dtype = "float64"
                   THEN [fnCall EXCEPT
                           !.pc = "raised",
                           !.exc = "TypeError",
                           !.x = x,
                           !.omegas = AssignReal(fnCall.omegas,
                                                 SubSeq(x, 1, Len(x) \div 2))]
                   ELSE [fnCall EXCEPT !.pc = "returned",
                                       !.x = x,
                                       !.omegas = Unpack(x),
                                       !.ret = Unpack(x)]
    /\ UNCHANGED <<rankCall, selCall, self, ret, hist, run>>

NextPack ==
    \/ PackOmegas
    \/ UnpackInResidual
    \/ UnpackInJacobian
    \/ RecombineOptX

SpecPack == InitPack /\ [][NextPack]_vars

\* C11: packing a complex vector of length r >= 1 gives the real vector of
\* length 2r of the real parts followed by the imaginary parts; the residual
\* and the Jacobian, handed the packed vector, unpack it to the original
\* vector exactly; the final recombination never raises on a complex vector
\* and is the same inverse of the packing: it gives the complex vector whose
\* packing is opt.x, which is the original vector exactly whenever opt.x is
\* the packed vector.  A complex vector is an array of a complex type,
\* whatever its values.
PackRoundTrip ==
    /\ fnCall.pc # "start" =>
          /\ Len(fnCall.packed) = 2 * Len(fnCall.args)
          /\ \A i \in 1..Len(fnCall.args) :
                /\ fnCall.packed[i] = Re(fnCall.args[i])
                /\ fnCall.packed[Len(fnCall.args) + i] = Im(fnCall.args[i])
    /\ fnCall.pc \in {"rho", "raised", "jac", "returned"} =>
          fnCall.rho_alphas = fnCall.args
    /\ (fnCall.pc \in {"jac", "returned"} \/ fnCall.exc = "TypeError") =>
          fnCall.jac_alphas = fnCall.args
    /\ fnCall.dtype = "complex128" =>
          /\ fnCall.exc # "TypeError"
          /\ fnCall.pc = "returned" =>
                /\ fnCall.ret = fnCall.omegas
                /\ 2 * Len(fnCall.ret) = Len(fnCall.x)
                /\ \A i \in 1..Len(fnCall.ret) :
                      /\ Re(fnCall.ret[i]) = fnCall.x[i]
                      /\ Im(fnCall.ret[i]) = fnCall.x[Len(fnCall.ret) + i]
                /\ (fnCall.x = fnCall.packed => fnCall.ret = fnCall.args)

\* the solver returned its initial point and the recombination gave back
\* the vector that was packed
PackRoundTripWitness ==
    /\ fnCall.pc = "returned"
    /\ fnCall.dtype = "complex128"
    /\ fnCall.args = <<<<1, -1>>, <<0, 1>>>>
    /\ fnCall.packed = <<1, 0, -1, 1>>
    /\ fnCall.rho_alphas = <<<<1, -1>>, <<0, 1>>>>
    /\ fnCall.jac_alphas = <<<<1, -1>>, <<0, 1>>>>
    /\ fnCall.x = <<1, 0, -1, 1>>
    /\ fnCall.ret = <<<<1, -1>>, <<0, 1>>>>


(***************************************************************************)
(* Specification SpecOperator: one call of compute_operator on an operator *)
(* with any sort policy.  The data have as many columns as it takes for    *)
(* the solver to work on len eigenvalues, len <= MaxSortLen, and time has  *)
(* one entry per column or not; the solver answers with any eigenvalues of *)
(* SortEigs and np.argsort with any ascending order of the key it is       *)
(* given.                                                                  *)
(***************************************************************************)
\* eigenvalues the solver may converge to; their moduli are integers
SortEigs == {<<-3, 0>>, <<1, 0>>, <<0, 2>>, <<0, -1>>, <<3, 4>>}

\* data of len + 1 snapshots of len states, of full rank
SortData(len) == Data(2, len, len + 1, Ones(len))

\* the answers of the libraries for a policy and len eigenvalues
SortLibAnswers(sorted_eigs, len) ==
    LET policy == LazySortedEigs(sorted_eigs)
    IN  {[sigma_y |-> sigma_y,
          ev |-> [i \in 1..len |-> <<0, 0>>], evreal |-> FALSE,
          pcolumn |-> Arange(len + 1), sol |-> sa[1], argsort |-> sa[2]] :
            sigma_y \in SigmaAnswers(len),
            sa \in UNION {{<<sl, q>> :
                             q \in (IF policy.t = "str" /\ policy.v \in SortPolicies
                                    THEN ArgSorts(SortKey(policy.v, sl))
                                    ELSE {<<>>})} :
                          sl \in SeqsOf(SortEigs, len)}}

OperatorArgs(sorted_eigs, len, time, lib) ==
    [op |-> VarProOperator(Zero, FALSE, sorted_eigs, Zero),
     X |-> SortData(len), time |-> time, lib |-> lib]

InitOperator ==
    /\ \E sorted_eigs \in ConfigSortedEigs, len \in 1..MaxSortLen :
         \E lib \in SortLibAnswers(sorted_eigs, len),
            time \in FitTimes(SortData(len)) :
           fnCall = [called |-> FALSE, fn |-> "compute_operator",
                     args |-> OperatorArgs(sorted_eigs, len, time, lib),
                     ret |-> <<>>]
    /\ rankCall = Idle
    /\ selCall = Idle
    /\ self = Idle
    /\ ret = Idle
    /\ hist = Idle
    /\ run = Idle

CallComputeOperator ==
    /\ ~fnCall.called
    /\ fnCall' = [fnCall EXCEPT
                    !.called = TRUE,
                    !.ret = compute_operator(fnCall.args.op, fnCall.args.X,
                                             fnCall.args.time, fnCall.args.lib)]
    /\ UNCHANGED <<rankCall, selCall, self, ret, hist, run>>

NextOperator == CallComputeOperator

SpecOperator == InitOperator /\ [][NextOperator]_vars

\* x is in non-increasing order
NonIncreasing(x) == \A i \in 1..(Len(x) - 1) : x[i] >= x[i + 1]

\* |Re z|, |Im z| and |z|^2 of the entries of a complex vector
AbsReal(z) == [i \in DOMAIN z |-> Abs(Re(z[i]))]

AbsImag(z) == [i \in DOMAIN z |-> Abs(Im(z[i]))]

AbsSquared(z) == [i \in DOMAIN z |-> Re(z[i]) * Re(z[i]) + Im(z[i]) * Im(z[i])]

\* the returned modes, eigenvalues and amplitudes are the solver's triples
\* in one common order
TriplesAligned(res, sol) ==
    LET cols == res.op.modes.v.cols
        eigenvalues == res.op.eigenvalues.v
    IN  /\ Len(cols) = Len(sol)
        /\ Len(eigenvalues) = Len(sol)
        /\ {cols[i] : i \in DOMAIN cols} = 0..(Len(sol) - 1)
        /\ res.out.val.eigenf = cols
        /\ \A i \in DOMAIN cols : eigenvalues[i] = sol[cols[i] + 1]

\* C12: with sorted_eigs "real", "imag" or "abs" the eigenvalues a returning
\* call of compute_operator leaves come in non-increasing order of |Re|, |Im|
\* or |.|, and the modes' columns and the amplitudes are reordered by the
\* same permutation; with sorted_eigs False the solver's order is kept.
SortedByPolicy ==
    fnCall.called =>
        LET policy == fnCall.args.op.sorted_eigs
            res == fnCall.ret
            sol == fnCall.args.lib.sol
        IN  /\ (/\ ~res.out.raised
                 /\ policy.t = "str" /\ policy.v \in {"real", "imag", "abs"}) =>
                  /\ TriplesAligned(res, sol)
                  /\ policy.v = "real" => NonIncreasing(AbsReal(res.op.eigenvalues.v))
                  /\ policy.v = "imag" => NonIncreasing(AbsImag(res.op.eigenvalues.v))
                  /\ policy.v = "abs" => NonIncreasing(AbsSquared(res.op.eigenvalues.v))
            /\ (~res.out.raised /\ policy = Bool("False")) =>
                  /\ res.op.eigenvalues.v = sol
                  /\ res.op.modes.v.cols = Arange(Len(sol))
                  /\ res.out.val.eigenf = Arange(Len(sol))

SortedByPolicyWitness ==
    /\ fnCall.called
    /\ fnCall.args.op.sorted_eigs = Str("imag")
    /\ fnCall.args.lib.sol = <<<<1, 0>>, <<0, -1>>, <<0, 2>>>>
    /\ fnCall.ret.op.eigenvalues.v = <<<<0, 2>>, <<0, -1>>, <<1, 0>>>>
    /\ fnCall.ret.op.modes.v.cols = <<2, 1, 0>>

AbsValue(z) == [i \in DOMAIN z |-> Modulus(z[i])]

\* the variance of x, multiplied by len(x)^2
ScaledVariance(x) ==
    Len(x) * SumSeq([i \in DOMAIN x |-> x[i] * x[i]]) - SumSeq(x) * SumSeq(x)

\* the quantities |z|, |Re z|, |Im z| of largest variance across z
LargestVarianceKeys(z) ==
    LET keys == {AbsValue(z), AbsReal(z), AbsImag(z)}
    IN  {k \in keys :
            \A other \in keys : ScaledVariance(k) >= ScaledVariance(other)}

\* C13: with sorted_eigs True or "auto" the sort key of a returning call is
\* whichever of |Omega|, |Re Omega|, |Im Omega| has the largest variance
\* across the eigenvalues the solver found, and the eigenvalues come back in
\* descending order of it.
AutoSortsByLargestVariance ==
    (/\ fnCall.called
     /\ ~fnCall.ret.out.raised
     /\ fnCall.args.op.sorted_eigs \in {Bool("True"), Str("auto")})
        => /\ \E key \in {"abs", "real", "imag"} :
                LET sol == fnCall.args.lib.sol
                    eigenvalues == fnCall.ret.op.eigenvalues.v
                    of(z) == IF key = "abs" THEN AbsValue(z)
                             ELSE IF key = "real" THEN AbsReal(z)
                             ELSE AbsImag(z)
                IN  /\ of(sol) \in LargestVarianceKeys(sol)
                    /\ NonIncreasing(of(eigenvalues))


(***************************************************************************)
(* Specification SpecAny: one call of compute_varprodmd_any on a matrix of *)
(* up to MaxAnyShape rows and columns, with any rank specifier, projection *)
(* flag, compression fraction, size of time, singular values of y_in,      *)
(* pivot order of the QR decomposition and type of the initial             *)
(* eigenvalues.                                                            *)
(***************************************************************************)
AnyData ==
    UNION {{Data(2, rows, cols, sg) : sg \in FitSigmas(Min(rows, cols))} :
             rows \in 2..MaxAnyShape, cols \in 2..MaxAnyShape}

AnyRanks == {Rat(-1, 1), Zero, Rat(1, 2)} \cup {Rat(k, 1) : k \in 1..MaxAnyShape}

AnyCompressions == {Rat(k, 8) : k \in {-1, 0, 1, 4, 6, 8}}

AnyLibAnswers(X, compression, sigmas) ==
    {[DefaultLib(X) EXCEPT !.sigma_y = sigma_y, !.pcolumn = pcolumn,
                           !.evreal = evreal] :
        sigma_y \in sigmas,
        pcolumn \in (IF RatLt(Zero, compression)
                     THEN Permutations(0..(X.cols - 1))
                     ELSE {Arange(X.cols)}),
        evreal \in BOOLEAN}

\* a time vector of one timestamp per column, of two timestamps or of one
\* timestamp too many
AnyTimes(X) == {Time(1, size) : size \in {2, X.cols, X.cols + 1}}

AnyArgs(X, time, rank, use_proj, compression, lib) ==
    [data |-> X, time |-> time, rank |-> rank,
     use_proj |-> use_proj, compression |-> compression, lib |-> lib]

\* the argument sets of the calls whose rank estimation has the outcome rk
AnyCalls(X, rank, rk) ==
    UNION {{AnyArgs(X, time, rank, uc[1], uc[2], lib) :
              time \in AnyTimes(X),
              lib \in AnyLibAnswers(X, uc[2], SigmaYAnswers(X, rk, uc[1]))} :
           uc \in BOOLEAN \X AnyCompressions}

InitAny ==
    /\ \E X \in AnyData, rank \in AnyRanks :
         \E args \in AnyCalls(X, rank,
                               __compute_rank(X.s, X.rows, X.cols, rank, None)) :
           fnCall = [called |-> FALSE, fn |-> "compute_varprodmd_any",
                     args |-> args, ret |-> <<>>]
    /\ rankCall = Idle
    /\ selCall = Idle
    /\ self = Idle
    /\ ret = Idle
    /\ hist = Idle
    /\ run = Idle

CallComputeAny ==
    /\ ~fnCall.called
    /\ fnCall' = [fnCall EXCEPT
                    !.called = TRUE,
                    !.ret = compute_varprodmd_any(
                                fnCall.args.data, fnCall.args.time,
                                fnCall.args.rank, fnCall.args.use_proj,
                                fnCall.args.compression, fnCall.args.lib)]
    /\ UNCHANGED <<rankCall, selCall, self, ret, hist, run>>

NextAny == CallComputeAny

SpecAny == InitAny /\ [][NextAny]_vars

\* what the sample selector yields for the arguments a
SelectorYield(a) ==
    select_best_samples_fast(Array(2, a.data.rows, a.data.cols), a.compression,
                             a.lib.pcolumn).val

\* C14: with a compression fraction > 0, when the selector yields more than
\* one index the solver receives the data columns and the time values at
\* exactly those indices, in that order, and those indices are returned; when
\* it yields at most one index, all of 0..m-1 is used instead.
CompressionSubsetsOrFallsBack ==
    (/\ fnCall.called
     /\ ~fnCall.ret.raised
     /\ RatLt(Zero, fnCall.args.compression))
        => \A yield \in {SelectorYield(fnCall.args)} :
             \A used \in {IF Len(yield) > 1 THEN yield
                          ELSE Arange(fnCall.args.data.cols)} :
               /\ fnCall.ret.val.solver.data_in = used
               /\ fnCall.ret.val.solver.time_in = used
               /\ fnCall.ret.val.indices = used

CompressionSubsetsOrFallsBackWitness ==
    /\ fnCall.called
    /\ ~fnCall.ret.raised
    /\ fnCall.args.compression = Rat(4, 8)
    /\ fnCall.args.lib.pcolumn = <<3, 1, 0, 2>>
    /\ fnCall.ret.val.solver.time_in = <<3, 1>>
    /\ fnCall.ret.val.indices = <<3, 1>>

\* the set of the entries of a sequence
Range(x) == {x[i] : i \in DOMAIN x}

\* C15: with no compression the selected-sample indices are the identity
\* 0..m-1, and a positive compression fraction too small to drop a whole
\* sample (c * m < 1) yields the same index set as no compression.
SmallCompressionIsNoCompression ==
    (fnCall.called /\ ~fnCall.ret.raised)
        => LET c == fnCall.args.compression
               m == fnCall.args.data.cols
           IN  /\ c = Zero => fnCall.ret.val.indices = Arange(m)
               /\ (RatLt(Zero, c) /\ c.n * m < c.d)
                     => Range(fnCall.ret.val.indices) = 0..(m - 1)

\* the number of samples the solver is given and the number of eigenvalues
\* it optimizes, for the arguments a of a call that got past the selection
SampleCount(a) ==
    Len(SelectIndices(a.data.cols, a.compression,
                      [val |-> SelectorYield(a)]))

\* the rank the estimator returns for the data of a call
EstimatedRank(a) ==
    __compute_rank(a.data.s, a.data.rows, a.data.cols, a.rank, None).val

\* the outcome of __compute_dmd_ev in a call whose rank estimation
\* returned r
InitialEigenvaluesOf(a, r) ==
    __compute_dmd_ev(y_in(IF a.use_proj THEN r ELSE a.data.rows, a.data.cols,
                          a.lib.sigma_y),
                     z_in(IF a.use_proj THEN r ELSE a.data.rows, a.data.cols,
                          a.time),
                     Rat(r, 1), a.lib.ev)

EigenvalueCount(a) == Len(InitialEigenvaluesOf(a, EstimatedRank(a)).val)

\* valid arguments: rank and compression in range, one timestamp per
\* sample, and initial eigenvalues that can be computed
ValidAnyArgs(a) ==
    /\ RatLe(Zero, a.rank)
    /\ RatLe(Zero, a.compression)
    /\ RatLt(a.compression, One)
    /\ a.time.size = a.data.cols
    /\ ~InitialEigenvaluesOf(a, EstimatedRank(a)).raised

\* C16: whenever the solver is given fewer samples than there are eigenvalues
\* to optimize, the call warns of the underdetermined system, does not raise,
\* still runs the solver and returns modes, eigenvalues, amplitudes, indices
\* and the optimizer result.
UnderdeterminedWarnsAndProceeds ==
    (/\ fnCall.called
     /\ ValidAnyArgs(fnCall.args)
     /\ SampleCount(fnCall.args) < EigenvalueCount(fnCall.args))
        => /\ fnCall.ret.warned
           /\ ~fnCall.ret.raised
           /\ \E i \in DOMAIN fnCall.ret.work : fnCall.ret.work[i] = "solver"
           /\ {"modes", "omegas", "eigenf", "indices", "opt"}
                 \subseteq DOMAIN fnCall.ret.val

\* C17: after a successful call on an n x m matrix for which the rank
\* estimator returned r, there are exactly r eigenvalues, the mode matrix is
\* n x r and there are r amplitudes.
ResultsHaveRankSize ==
    (fnCall.called /\ ~fnCall.ret.raised)
        => \A r \in {EstimatedRank(fnCall.args)} :
               /\ Len(fnCall.ret.val.omegas) = r
               /\ fnCall.ret.val.modes.rows = fnCall.args.data.rows
               /\ Len(fnCall.ret.val.modes.cols) = r
               /\ Len(fnCall.ret.val.eigenf) = r


(***************************************************************************)
(* The residual vector and the Jacobian handed to least_squares.           *)
(*                                                                         *)
(* data is the m x n matrix of m samples of n states, alphas the real      *)
(* vector of length 2l.  rho_flat is np.ravel(rho) and jac_flat[j + 1] is  *)
(* np.ravel(__jac) of column j: complex vectors of length m * n that the   *)
(* linear algebra of lines 240-244 and 299-311 produces.  A real matrix is *)
(* the sequence of its rows.                                               *)
(***************************************************************************)
\* np.zeros((rows, cols))
Zeros(rows, cols) == [i \in 1..rows |-> [k \in 1..cols |-> 0]]

\* lines 245-248 of __compute_dmd_rho: rho_out
rho_out(rho_flat) ==
    [i \in 1..(2 * Len(rho_flat)) |->
        IF i <= Len(rho_flat) THEN Re(rho_flat[i])
        ELSE Im(rho_flat[i - Len(rho_flat)])]

\* jac[lo : hi, col] = x, for 0-based lo, hi and col
SetColumnSlice(jac, lo, hi, col, x) ==
    [i \in DOMAIN jac |->
        IF lo < i /\ i <= hi
        THEN [jac[i] EXCEPT ![col + 1] = x[i - lo]]
        ELSE jac[i]]

Negated(x) == [i \in DOMAIN x |-> -x[i]]

RealParts(z) == [i \in DOMAIN z |-> Re(z[i])]

ImagParts(z) == [i \in DOMAIN z |-> Im(z[i])]

\* mutant of JacobianColumn: the imaginary block is not negated
JacobianColumn_plain(jac_out, j, l, flat) ==
    LET half == Len(jac_out) \div 2
        a == SetColumnSlice(jac_out, 0, half, j, RealParts(flat))
        b == SetColumnSlice(a, half, Len(jac_out), j, ImagParts(flat))
        c == SetColumnSlice(b, 0, half, l + j, ImagParts(flat))
    IN  SetColumnSlice(c, half, Len(jac_out), l + j, RealParts(flat))

\* lines 320-331: the four assignments of one pass of the loop
JacobianColumn(jac_out, j, l, flat) ==
    LET half == Len(jac_out) \div 2
        a == SetColumnSlice(jac_out, 0, half, j, RealParts(flat))
        b == SetColumnSlice(a, half, Len(jac_out), j, ImagParts(flat))
        c == SetColumnSlice(b, 0, half, l + j, Negated(ImagParts(flat)))
    IN  SetColumnSlice(c, half, Len(jac_out), l + j, RealParts(flat))

RECURSIVE JacobianLoop(_, _, _, _)
\* for j in range(__alphas.shape[-1]), from pass j on
JacobianLoop(jac_out, j, l, jac_flat) ==
    IF j >= l THEN jac_out
    ELSE JacobianLoop(JacobianColumn(jac_out, j, l, jac_flat[j + 1]),
                      j + 1, l, jac_flat)

\* alphas_len = alphas.shape[-1], m x n = data.shape
__compute_dmd_jac(alphas_len, m, n, jac_flat) ==
    JacobianLoop(Zeros(2 * (m * n), alphas_len), 0, alphas_len \div 2, jac_flat)

(***************************************************************************)
(* The scratch state.                                                      *)
(*                                                                         *)
(* The residual leaves phi, the factors of its SVD, the coefficient matrix *)
(* and the residual matrix in the __OptimizeHelper, and the Jacobian reads *)
(* them from there.  A parameter vector is a number of 1..MaxAlpha.  A     *)
(* scratch field is the stamp of the residual evaluation that assigned it: *)
(* the parameter vector of the evaluation, the solver run and the count of *)
(* residual evaluations of the run.                                        *)
(***************************************************************************)
Alphas == 1..MaxAlpha

\* optargs["method"]
Methods == {"trf", "dogbox", "lm"}

\* np.empty: the field holds whatever the memory held
Empty == [alpha |-> 0, run |-> 0, calls |-> 0]

\* __OptimizeHelper.__init__ (phi_inv is a slot that is never assigned)
__OptimizeHelper ==
    [phi |-> Empty, u_svd |-> Empty, s_inv |-> Empty, v_svd |-> Empty,
     b_matrix |-> Empty, rho |-> Empty]

\* lines 250-261 of __compute_dmd_rho: the six assignments to opthelper,
\* made by residual evaluation number calls of run id at alphas
__compute_dmd_rho(alphas, id, calls, opthelper) ==
    LET stamp == [alpha |-> alphas, run |-> id, calls |-> calls]
    IN  [opthelper EXCEPT !.phi = stamp, !.u_svd = stamp, !.s_inv = stamp,
                          !.v_svd = stamp, !.rho = stamp, !.b_matrix = stamp]

\* lines 298-311 of __compute_dmd_jac: the fields an evaluation at alphas
\* reads, after calls residual evaluations of the run
JacobianReads(alphas, opthelper, calls) ==
    [alpha |-> alphas, calls |-> calls,
     phi |-> opthelper.phi, b_matrix |-> opthelper.b_matrix,
     u_svd |-> opthelper.u_svd, s_inv |-> opthelper.s_inv,
     v_svd |-> opthelper.v_svd, rho |-> opthelper.rho]

(***************************************************************************)
(* Specification SpecJac: the first two calls least_squares makes, the     *)
(* residual and then the Jacobian, for the same data and the same alphas.  *)
(* The residual writes the scratch state and the Jacobian reads it.        *)
(***************************************************************************)
\* the shapes m x n of the data
JacShapes == {<<1, 1>>, <<2, 1>>, <<1, 2>>, <<2, 2>>}

\* entries of the complex matrices
JacEntries == {<<1, 2>>, <<-3, 4>>}

\* line 487: a new helper, nothing evaluated yet
InitJac ==
    /\ \E shape \in JacShapes, l \in 1..MaxJacEigs, alphas \in Alphas :
         \E rho_flat \in SeqsOf(JacEntries, shape[1] * shape[2]),
            jac_flat \in SeqsOf(SeqsOf(JacEntries, shape[1] * shape[2]), l) :
           fnCall = [pc |-> "start", fn |-> "__compute_dmd_jac",
                     args |-> [m |-> shape[1], n |-> shape[2], alphas_len |-> 2 * l,
                               alphas |-> alphas,
                               rho_flat |-> rho_flat, jac_flat |-> jac_flat],
                     opthelper |-> __OptimizeHelper,
                     rho |-> <<>>, reads |-> NoneValue, ret |-> <<>>]
    /\ rankCall = Idle
    /\ selCall = Idle
    /\ self = Idle
    /\ ret = Idle
    /\ hist = Idle
    /\ run = Idle

\* __compute_dmd_rho: rho_out is returned and the scratch state written
CallRho ==
    /\ fnCall.pc = "start"
    /\ fnCall' = [fnCall EXCEPT
                    !.pc = "rho",
                    !.rho = rho_out(fnCall.args.rho_flat),
                    !.opthelper = __compute_dmd_rho(fnCall.args.alphas, 1, 1,
                                                    fnCall.opthelper)]
    /\ UNCHANGED <<rankCall, selCall, self, ret, hist, run>>

\* __compute_dmd_jac: the scratch state is read and jac_out returned
CallJac ==
    /\ fnCall.pc = "rho"
    /\ fnCall' = [fnCall EXCEPT
                    !.pc = "jac",
                    !.reads = JacobianReads(fnCall.args.alphas,
                                            fnCall.opthelper, 1),
                    !.ret = __compute_dmd_jac(fnCall.args.alphas_len,
                                              fnCall.args.m, fnCall.args.n,
                                              fnCall.args.jac_flat)]
    /\ UNCHANGED <<rankCall, selCall, self, ret, hist, run>>

NextJac ==
    \/ CallRho
    \/ CallJac

SpecJac == InitJac /\ [][NextJac]_vars

\* C18: for m samples of n states and 2r parameters the Jacobian is of shape
\* (2*m*n, 2r), has as many rows as the residual vector has entries, and its
\* column r + j is column j rotated by i: the negated lower half of column j
\* on top of the upper half of column j.
JacobianShapeAndRotation ==
    fnCall.pc = "jac" =>
        LET jac == fnCall.ret
            mn == fnCall.args.m * fnCall.args.n
            r == fnCall.args.alphas_len \div 2
        IN  /\ Len(jac) = 2 * mn
            /\ \A i \in DOMAIN jac : Len(jac[i]) = 2 * r
            /\ Len(jac) = Len(fnCall.rho)
            /\ \A j \in 1..r : \A i \in 1..mn :
                  /\ jac[i][r + j] = -jac[mn + i][j]
                  /\ jac[mn + i][r + j] = jac[i][j]

JacobianShapeAndRotationWitness ==
    /\ fnCall.pc = "jac"
    /\ fnCall.args.m = 2
    /\ fnCall.args.n = 1
    /\ fnCall.args.jac_flat = <<<<<<1, 2>>, <<-3, 4>>>>>>
    /\ fnCall.rho = <<1, -3, 2, 4>>
    /\ fnCall.reads.rho = [alpha |-> fnCall.args.alphas, run |-> 1, calls |-> 1]
    /\ fnCall.ret = << <<1, -2>>, <<-3, -4>>, <<2, 1>>, <<4, -3>> >>

(***************************************************************************)
(* The solver run.                                                         *)
(*                                                                         *)
(* compute_varprodmd_any creates one __OptimizeHelper (line 487), hands it *)
(* with __compute_dmd_rho and __compute_dmd_jac to least_squares (lines    *)
(* 360-366, with the caller's optargs) and reads opt.x and                 *)
(* opthelper.b_matrix afterwards (lines 491-493).  least_squares is        *)
(* scipy's; it is modelled by the order in which it calls the two          *)
(* functions.  Every method begins with the residual and the Jacobian at   *)
(* the initial point.  The trust-region methods "trf" and "dogbox" then    *)
(* evaluate, per trial step, the residual at the trial point and, when the *)
(* step reduces the cost, the Jacobian at that point; the termination      *)
(* tests follow every trial and max_nfev bounds the residual evaluations.  *)
(* Method "lm" hands both functions to MINPACK, which starts again at the  *)
(* initial point, evaluates the Jacobian after an accepted step only when  *)
(* it goes on, and is followed by one more Jacobian evaluation at the      *)
(* returned point.                                                         *)
(***************************************************************************)
NoRun ==
    [pc |-> "idle", id |-> 0, method |-> "trf", alphas_init |-> 0, max_nfev |-> 0,
     evreal |-> FALSE, opthelper |-> __OptimizeHelper, minpack |-> FALSE,
     x |-> 0, x_new |-> 0, calls |-> 0, nfev |-> 0, njev |-> 0, status |-> 0,
     jac |-> NoneValue, opt |-> NoneValue, xi |-> NoneValue, exc |-> NoneValue]

InitSolver ==
    /\ run = NoRun
    /\ rankCall = Idle
    /\ selCall = Idle
    /\ self = Idle
    /\ ret = Idle
    /\ hist = Idle
    /\ fnCall = Idle

\* line 487 and the call at lines 488-490: a new helper for every call
StartRun ==
    /\ run.pc \in {"idle", "returned", "raised"}
    /\ run.id < MaxRuns
    /\ \E method \in Methods, alphas_init \in Alphas, max_nfev \in 1..MaxNfev,
          evreal \in BOOLEAN :
         run' = [NoRun EXCEPT !.pc = "fun0", !.id = run.id + 1,
                              !.method = method,
                              !.alphas_init = alphas_init,
                              !.max_nfev = max_nfev, !.evreal = evreal]
    /\ UNCHANGED <<rankCall, selCall, self, ret, hist, fnCall>>

\* f0 = fun(x0), which least_squares requires to be finite; MINPACK
\* evaluates it once more
ResidualAtStart ==
    /\ run.pc = "fun0"
    /\ \E finite \in BOOLEAN :
         /\ run.minpack => finite
         /\ run' = [run EXCEPT
                      !.opthelper = __compute_dmd_rho(run.alphas_init, run.id,
                                                      run.calls + 1, run.opthelper),
                      !.calls = run.calls + 1,
                      !.nfev = 1,
                      !.pc = IF finite THEN "jac0" ELSE "raised",
                      !.exc = IF finite THEN NoneValue ELSE Str("ValueError")]
    /\ UNCHANGED <<rankCall, selCall, self, ret, hist, fnCall>>

\* J0 = jac(x0); with "lm" MINPACK is entered after it and begins anew
JacobianAtStart ==
    /\ run.pc = "jac0"
    /\ run' = [run EXCEPT
                 !.jac = JacobianReads(run.alphas_init, run.opthelper, run.calls),
                 !.x = run.alphas_init,
                 !.njev = IF run.minpack THEN 1 ELSE run.njev + 1,
                 !.minpack = (run.method = "lm"),
                 !.pc = IF run.method = "lm" /\ ~run.minpack THEN "fun0" ELSE "top"]
    /\ UNCHANGED <<rankCall, selCall, self, ret, hist, fnCall>>

\* f_new = fun(x_new) and the tests that follow it.  reduced: the step is
\* accepted; terminated: ftol or xtol is satisfied.  The trust-region
\* methods make no trial once max_nfev is reached; MINPACK tests the budget
\* only after a trial, and leaves without a Jacobian at an accepted point.
TrialResidual ==
    /\ run.pc \in {"top", "inner"}
    /\ run.status = 0
    /\ run.method = "lm" \/ run.nfev < run.max_nfev
    /\ \E x_new \in Alphas, finite \in BOOLEAN, reduced \in BOOLEAN,
          terminated \in BOOLEAN :
         LET accepted == finite /\ reduced
             stop == (finite /\ terminated) \/ run.nfev + 1 >= run.max_nfev
         IN  run' = [run EXCEPT
                       !.opthelper = __compute_dmd_rho(x_new, run.id, run.calls + 1,
                                                       run.opthelper),
                       !.calls = run.calls + 1,
                       !.nfev = run.nfev + 1,
                       !.x_new = x_new,
                       !.status = IF finite /\ terminated THEN 1 ELSE 0,
                       !.x = IF run.method = "lm" /\ accepted /\ stop
                             THEN x_new ELSE run.x,
                       !.pc = IF run.method = "lm"
                              THEN IF stop THEN "exit"
                                   ELSE IF accepted THEN "accept" ELSE "inner"
                              ELSE IF accepted THEN "accept"
                                   ELSE IF stop THEN "top" ELSE "inner"]
    /\ UNCHANGED <<rankCall, selCall, self, ret, hist, fnCall>>

\* x = x_new, J = jac(x) after an accepted step
JacobianAfterAccept ==
    /\ run.pc = "accept"
    /\ run' = [run EXCEPT
                 !.x = run.x_new,
                 !.jac = JacobianReads(run.x_new, run.opthelper, run.calls),
                 !.njev = run.njev + 1,
                 !.pc = "top"]
    /\ UNCHANGED <<rankCall, selCall, self, ret, hist, fnCall>>

\* "lm": J = jac(x) at the point MINPACK returned (gtol satisfied after a
\* Jacobian, or ftol, xtol or the budget after a trial)
JacobianAtExit ==
    /\ run.method = "lm"
    /\ run.pc \in {"top", "exit"}
    /\ run' = [run EXCEPT
                 !.jac = JacobianReads(run.x, run.opthelper, run.calls),
                 !.pc = "done"]
    /\ UNCHANGED <<rankCall, selCall, self, ret, hist, fnCall>>

\* least_squares returns x; lines 491-493 split opt.x and read
\* opthelper.b_matrix
ReturnAndRecombine ==
    /\ \/ run.method # "lm" /\ run.pc = "top"
       \/ run.pc = "done"
    /\ run' = [run EXCEPT
                 !.opt = [x |-> run.x, nfev |-> run.nfev, njev |-> run.njev,
                          status |-> run.status],
                 !.pc = IF run.evreal THEN "raised" ELSE "returned",
                 !.exc = IF run.evreal THEN Str("TypeError") ELSE NoneValue,
                 !.xi = IF run.evreal THEN NoneValue ELSE run.opthelper.b_matrix]
    /\ UNCHANGED <<rankCall, selCall, self, ret, hist, fnCall>>

NextSolver ==
    \/ StartRun
    \/ ResidualAtStart
    \/ JacobianAtStart
    \/ TrialResidual
    \/ JacobianAfterAccept
    \/ JacobianAtExit
    \/ ReturnAndRecombine

SpecSolver == InitSolver /\ [][NextSolver]_vars

ScratchFields == {"phi", "u_svd", "s_inv", "v_svd", "b_matrix", "rho"}

\* C19: within a solver run every scratch field a Jacobian evaluation at
\* alpha reads was assigned by the residual evaluation right before it, made
\* at the same alpha: none is uninitialised, from another alpha, from an
\* earlier evaluation or from another run.
JacobianReadsFreshScratch ==
    run.jac # NoneValue =>
        \A f \in ScratchFields :
            /\ run.jac[f] # Empty
            /\ run.jac[f].alpha = run.jac.alpha
            /\ run.jac[f].run = run.id
            /\ run.jac[f].calls = run.jac.calls

\* C20: when the solver has returned, the coefficient matrix read from the
\* scratch state was computed by a residual evaluation at the returned opt.x.
CoefficientsBelongToReturnedAlphas ==
    run.pc = "returned" => run.xi.alpha = run.opt.x

====
